---- MODULE Spec2Model ----
(***************************************************************************)
(* Verification model of the Horizon resilience layer of stellarAid:       *)
(* the rate limiter (horizon_rate_limit.rs), the retry engine              *)
(* (horizon_retry.rs), the error taxonomy (horizon_error.rs), the TTL      *)
(* response cache (horizon_client/cache.rs) and the orchestrating client   *)
(* (horizon_client.rs).  Time is a single clock `now` in milliseconds.     *)
(***************************************************************************)
EXTENDS Integers, Sequences, FiniteSets, Bags, TLC

VARIABLES
    now,                \* the clock, milliseconds since the limiter was built
    requests_per_hour,  \* RateLimitConfig.requests_per_hour
    tat,                \* governor state of each limiter: theoretical arrival time
    handle,             \* HorizonRateLimiter value held by each caller (0: none)
    rlPc,               \* position of each caller inside check()/acquire()
    rlMode,             \* which entry point the caller is running
    rlPrev,             \* limiter state the caller loaded
    rlT0,               \* clock reading the caller took when it entered check()
    rlWake,             \* end of the caller's 100 ms poll sleep
    rlLast,             \* outcome of the caller's last check()
    grants,             \* bag of [lim, t]: every successful check()
    cbCfg,              \* the RetryConfig handed to calculate_backoff
    cbAttempt,          \* the attempt of the last calculate_backoff call
    cbResult,           \* its outcome: [panic, ms], NoResult before any call
    policy,             \* the RetryPolicy in force
    max_attempts,       \* RetryConfig.max_attempts
    rCfg,               \* RetryConfig, the backoff fields
    rPc,                \* position of the retry loop
    attempt,            \* the loop variable of the retry loop
    errors,             \* the errors vector of the retry loop
    rResult,            \* what the retry loop returned
    rLog,               \* every call of the operation and every sleep, in order
    cache_ttl,          \* the TTL the ResponseCache was built with
    entries,            \* the cache: for each key, the entry stored if any
    hits,               \* ResponseCache.hits
    misses,             \* ResponseCache.misses
    cOp,                \* the last cache operation: its name, key and result
    cGets,              \* number of get calls since the last reset_stats
    lastSet,            \* for each key, the last set not followed by a clear
    enable_cache,       \* HorizonClientConfig.enable_cache
    gPath,              \* the path of the get in progress or last made
    gReturn,            \* what the last get returned
    httpCalls,          \* number of HTTP requests sent
    gCalls,             \* number of get calls made
    gWake,              \* when the poll sleep of acquire ends
    gOp,                \* the last step the client made
    gCtx,               \* the RequestContext each attempt of the current get used
    keep_monitoring,    \* HealthMonitor.keep_monitoring
    degraded_threshold_ms, \* HealthCheckConfig.degraded_threshold_ms
    check_interval_secs,   \* HealthMonitor.check_interval_secs
    last_result,        \* HorizonHealthChecker.last_result
    hPc,                \* where each spawned monitoring loop is
    hStart,             \* the Instant each loop's check in flight started at
    hWake,              \* when each loop's sleep ends
    hSince,             \* checks each loop began since the flag was last cleared
    overflow_checks,    \* whether the build panics on integer overflow
    fc_data,            \* FeeCache.data
    fc_ttl,             \* FeeCache.ttl_seconds
    records,            \* FeeHistory.records
    max_records,        \* FeeHistory.max_records
    accepted,           \* every fee FeeHistory.add accepted since the last clear
    sp_config,          \* SurgePricingAnalyzer.config
    fee_history,        \* SurgePricingAnalyzer.fee_history
    fLeft,              \* state-changing fee operations the run may still make
    fOp,                \* the last fee operation and what it returned
    svc_pc,             \* where each caller of the fee service stands
    svc_n,              \* operation_count of the estimate_fee a caller is in
    svc_fee,            \* base_fee a caller's fetch returned
    svc_batch,          \* the batch_estimate_fees a caller is in
    svc_ret,            \* what the last estimate_fee of each caller returned
    svc_bret,           \* what the last batch_estimate_fees of each caller returned
    svc_pre,            \* the state in which a caller's estimate began, and its response
    cache_lock,         \* the caller holding the write lock of the cache, or 0
    fetches,            \* invocations of the fetcher
    svc_calls,          \* invocations of estimate_fee
    svc_clears          \* invocations of clear_cache

rlVars == <<requests_per_hour, tat, handle, rlPc, rlMode, rlPrev, rlT0, rlWake,
            rlLast, grants>>

cbVars == <<cbCfg, cbAttempt, cbResult>>

rVars == <<policy, max_attempts, rCfg, rPc, attempt, errors, rResult, rLog>>

cVars == <<cache_ttl, entries, hits, misses, cOp, cGets, lastSet>>

gVars == <<enable_cache, gPath, gReturn, httpCalls, gCalls, gWake, gOp, gCtx>>

hVars == <<keep_monitoring, degraded_threshold_ms, check_interval_secs, last_result,
           hPc, hStart, hWake, hSince>>

sVars == <<svc_pc, svc_n, svc_fee, svc_batch, svc_ret, svc_bret, svc_pre,
           cache_lock, fetches, svc_calls, svc_clears>>

fVars == <<overflow_checks, fc_data, fc_ttl, records, max_records, accepted, sp_config,
           fee_history, fLeft, fOp, sVars>>

\* the components that sit on top of the client
oVars == <<hVars, fVars>>

vars == <<now, rlVars, cbVars, rVars, cVars, gVars, oVars>>

----------------------------------------------------------------------------
(* Bounds of the model *)

NCallers == 2
MaxRequestsPerHour == 3
RlClockStepMs == 600000
RlMaxClockMs == 1800000

(* Program constants *)

HourMs == 3600000
PollMs == 100

Callers == 1..NCallers
Limiters == 1..NCallers

Max(a, b) == IF a >= b THEN a ELSE b
Min(a, b) == IF a <= b THEN a ELSE b
SatSub(a, b) == IF a >= b THEN a - b ELSE 0

\* a u32 is kept as two 16-bit halves
U32(n) == [hi |-> n \div 65536, lo |-> n % 65536]

\* RetryConfig::none(), backoff part
NoBackoffConfig ==
    [initial_backoff |-> 0, max_backoff |-> 0, mult_num |-> 1, mult_den |-> 1,
     use_jitter |-> FALSE]

\* RetryConfig::default(), backoff part
DefaultBackoffConfig ==
    [initial_backoff |-> 100, max_backoff |-> 30000, mult_num |-> 2, mult_den |-> 1,
     use_jitter |-> TRUE]

\* what a retry loop that has not returned holds as its result
NoOutcome == [tag |-> "none", value |-> 0, kind |-> "", call |-> 0]

\* no calculate_backoff call was made yet
NoResult == [panic |-> FALSE, ms |-> -1]

RECURSIVE SumOver(_, _)
SumOver(S, f) ==
    IF S = {} THEN 0
    ELSE LET x == CHOOSE y \in S : TRUE IN f[x] + SumOver(S \ {x}, f)

\* the retry loop is not running while the other components run
RIdle ==
    /\ policy = "NoRetry"
    /\ max_attempts = 1
    /\ rCfg = NoBackoffConfig
    /\ rPc = "idle"
    /\ attempt = 1
    /\ errors = <<>>
    /\ rResult = NoOutcome
    /\ rLog = <<>>

\* request paths, the keys of the response cache, and response bodies
Paths == {"/", "/accounts"}
Values == {"v1", "v2"}

\* a key the cache holds nothing for
Absent == [present |-> FALSE, value |-> "", inserted |-> 0]

NeverSet == [valid |-> FALSE, value |-> "", at |-> 0]

NoCacheOp == [op |-> "none", key |-> "", hit |-> FALSE, value |-> ""]

\* ResponseCache::new(ttl) and nothing done with it
CEmpty ==
    /\ entries = [k \in Paths |-> Absent]
    /\ hits = 0
    /\ misses = 0
    /\ cOp = NoCacheOp
    /\ cGets = 0
    /\ lastSet = [k \in Paths |-> NeverSet]

\* the cache is not used while the other components run
CIdle ==
    /\ cache_ttl = 0
    /\ CEmpty

NoReturn == [tag |-> "none", value |-> "", kind |-> ""]

\* no client is running while the other components run
GIdle ==
    /\ enable_cache = FALSE
    /\ gPath = ""
    /\ gReturn = NoReturn
    /\ httpCalls = 0
    /\ gCalls = 0
    /\ gWake = 0
    /\ gOp = "none"
    /\ gCtx = <<>>

\* the loops start may spawn
Loops == {1, 2}

\* last_result: Arc::new(RwLock::new(None))
NoHealthResult ==
    [some |-> FALSE, status |-> "Unknown", last_check |-> 0, response_time_ms |-> 0,
     error |-> "", details |-> ""]

\* HealthMonitor::new: the flag is false and no loop is spawned
HNew ==
    /\ keep_monitoring = FALSE
    /\ last_result = NoHealthResult
    /\ hPc = [l \in Loops |-> "none"]
    /\ hStart = [l \in Loops |-> 0]
    /\ hWake = [l \in Loops |-> 0]
    /\ hSince = [l \in Loops |-> 0]

\* no monitor exists while the other components run
HIdle ==
    /\ degraded_threshold_ms = 0
    /\ check_interval_secs = 0
    /\ HNew

\* An i64 amount of stroops, written q * 2^61 + r with r far below 2^61, so
\* that sums near the ends of the i64 range are exact: the range is
\* -4 * 2^61 .. 4 * 2^61 - 1
Fee(n) == [q |-> 0, r |-> n]

\* 2^62 stroops
HugeFee == [q |-> 2, r |-> 0]

FeeLess(a, b) == a.q < b.q \/ (a.q = b.q /\ a.r < b.r)
FeeLeq(a, b) == a = b \/ FeeLess(a, b)
FeeNegative(a) == FeeLess(a, Fee(0))

\* the mathematical sum, which may lie outside the i64 range
FeePlus(a, b) == [q |-> a.q + b.q, r |-> a.r + b.r]

FeeOverflows(x) == x.q >= 4 \/ x.q < -4

\* the i64 a wrapping operation leaves
FeeWrap(x) == [q |-> ((x.q + 4) % 8) - 4, r |-> x.r]

\* x / 2 on i64, rounding toward zero, for x with an even q
FeeHalf(x) ==
    IF FeeNegative(x)
    THEN [q |-> x.q \div 2, r |-> (x.r + 1) \div 2]
    ELSE [q |-> x.q \div 2, r |-> x.r \div 2]

NoFee == Fee(0)

\* FeeCache::new: data: None
NoFeeData == [some |-> FALSE, base_fee_stroops |-> NoFee, fetched_at |-> 0, ttl_seconds |-> 0]

\* FeeStats::calculate returned None
NoStats == [some |-> FALSE, min_fee |-> NoFee, max_fee |-> NoFee, sum |-> NoFee,
            median_fee |-> NoFee, total_records |-> 0]

\* a surge_percent, the f64 num / den
Percent(n, d) == [num |-> n, den |-> d]

NoFeeOp == [op |-> "none", arg |-> NoFee, ok |-> TRUE, err |-> "", some |-> FALSE,
            fee |-> NoFee, flag |-> FALSE, panic |-> FALSE, len |-> 0, stats |-> NoStats,
            level |-> "", pct |-> Percent(NoFee, 1), trend |-> "", recommendation |-> ""]

\* SurgePricingConfig::default()
DefaultSurgeConfig ==
    [normal_base_fee |-> 100, warn_threshold_percent |-> 150,
     critical_threshold_percent |-> 300, window_size |-> 10]

\* callers of the fee service
SvcCallers == {1}

\* what FeeInfo::new builds
FeeInfoOf(base, n, surge, pct) ==
    [base_fee_stroops |-> base, operation_count |-> n,
     total_fee_stroops |-> [q |-> base.q * n, r |-> base.r * n],
     is_surge_pricing |-> surge, surge_percent |-> pct]

NoFeeInfo == FeeInfoOf(NoFee, 0, FALSE, Percent(NoFee, 1))

\* no request was made to Horizon
NoFetchOutcome == [send |-> "none", status |-> 0, body |-> "", rate |-> NoFee]

\* no estimate_fee has returned
NoSvcReturn ==
    [call |-> 0, n |-> 0, at |-> 0, ok |-> FALSE, err |-> "", panic |-> FALSE,
     hit |-> FALSE, info |-> NoFeeInfo, clears |-> 0, resp |-> NoFetchOutcome]

\* no batch_estimate_fees has returned
NoBatchReturn == [counts |-> <<>>, ok |-> FALSE, err |-> "", panic |-> FALSE,
                  fees |-> <<>>, invoked |-> 0]

\* no batch_estimate_fees is running
NoBatch == [active |-> FALSE, counts |-> <<>>, fees |-> <<>>, index |-> 0, calls0 |-> 0]

NoSnapshot == [call |-> 0, at |-> 0, data |-> NoFeeData, records |-> <<>>, window |-> <<>>,
               fetches |-> 0, resp |-> NoFetchOutcome]

\* a fee service with no call made on it
SNew ==
    /\ svc_pc = [c \in SvcCallers |-> "idle"]
    /\ svc_n = [c \in SvcCallers |-> 0]
    /\ svc_fee = [c \in SvcCallers |-> NoFee]
    /\ svc_batch = [c \in SvcCallers |-> NoBatch]
    /\ svc_ret = [c \in SvcCallers |-> NoSvcReturn]
    /\ svc_bret = [c \in SvcCallers |-> NoBatchReturn]
    /\ svc_pre = [c \in SvcCallers |-> NoSnapshot]
    /\ cache_lock = 0
    /\ fetches = 0
    /\ svc_calls = 0
    /\ svc_clears = 0

\* the fee components as constructed, with nothing done to them
FNew ==
    /\ fc_data = NoFeeData
    /\ records = <<>>
    /\ accepted = <<>>
    /\ fee_history = <<>>
    /\ fOp = NoFeeOp
    /\ SNew

\* the fee components are not used while the other components run
FIdle ==
    /\ overflow_checks = FALSE
    /\ fc_ttl = 0
    /\ max_records = 0
    /\ sp_config = DefaultSurgeConfig
    /\ fLeft = 0
    /\ FNew

----------------------------------------------------------------------------
(* 4.1 RateLimiter: HorizonRateLimiter over governor's direct limiter *)

\* NonZeroU32::new(requests_per_hour).unwrap_or(1): the burst size of the quota
Burst(rph) == IF rph = 0 THEN 1 ELSE rph

\* Quota::per_hour(n): one cell is replenished every hour / n
ReplenishInterval(rph) == HourMs \div Burst(rph)

\* the burst tolerance: a full bucket holds Burst cells
Tau(rph) == ReplenishInterval(rph) * (Burst(rph) - 1)

\* the limiter's decision for a request measured at t0 against the state tatv
GcraAllowed(tatv, t0, rph) == t0 >= SatSub(tatv, Tau(rph))

GcraNext(tatv, t0, rph) == Max(tatv, t0) + ReplenishInterval(rph)

\* the state update is a compare-and-swap against the state the caller loaded
CasMatchesBlind(current, loaded) == TRUE

CasMatches(current, loaded) == current = loaded

\* impl Clone: the clone shares the Arc'd limiter of the original
CloneTarget(c, d) == handle[d]

RlInit ==
    /\ now = 0
    /\ requests_per_hour \in 1..MaxRequestsPerHour
    /\ tat = [l \in Limiters |-> 0]
    /\ handle = [c \in Callers |-> IF c = 1 THEN 1 ELSE 0]
    /\ rlPc = [c \in Callers |-> "idle"]
    /\ rlMode = [c \in Callers |-> "none"]
    /\ rlPrev = [c \in Callers |-> 0]
    /\ rlT0 = [c \in Callers |-> 0]
    /\ rlWake = [c \in Callers |-> 0]
    /\ rlLast = [c \in Callers |-> "none"]
    /\ grants = EmptyBag
    /\ cbCfg = NoBackoffConfig
    /\ cbAttempt = U32(0)
    /\ cbResult = NoResult
    /\ RIdle
    /\ CIdle
    /\ GIdle
    /\ HIdle
    /\ FIdle

CloneLimiter(c, d) ==
    /\ handle[c] = 0
    /\ handle[d] # 0
    /\ handle' = [handle EXCEPT ![c] = CloneTarget(c, d)]
    /\ UNCHANGED <<now, requests_per_hour, tat, rlPc, rlMode, rlPrev, rlT0,
                   rlWake, rlLast, grants, cbVars, rVars, cVars, gVars, oVars>>

\* entry of limiter.check(): read the clock, load the state
RlEnter(c, mode) ==
    /\ rlPc[c] = "idle"
    /\ handle[c] # 0
    /\ rlMode' = [rlMode EXCEPT ![c] = mode]
    /\ rlPc' = [rlPc EXCEPT ![c] = "cas"]
    /\ rlPrev' = [rlPrev EXCEPT ![c] = tat[handle[c]]]
    /\ rlT0' = [rlT0 EXCEPT ![c] = now]
    /\ rlLast' = [rlLast EXCEPT ![c] = "none"]
    /\ UNCHANGED <<now, requests_per_hour, tat, handle, rlWake, grants, cbVars, rVars, cVars, gVars, oVars>>

CheckBegin(c) == RlEnter(c, "check")

AcquireBegin(c) == RlEnter(c, "acquire")

\* the callers that also query the limiter
Observers == {1}

\* time_until_ready(): its match is on limiter.check(), the same call check() makes
TimeUntilReadyBegin(c) == RlEnter(c, "time_until_ready")

\* stats(): builds RateLimiterStats from time_until_ready()
StatsBegin(c) == RlEnter(c, "stats")

\* HorizonClient::rate_limiter_stats(): stats() of the client's limiter
RateLimiterStatsBegin(c) == RlEnter(c, "rate_limiter_stats")

\* the decision and the state update of limiter.check()
CheckCas(c) ==
    /\ rlPc[c] = "cas"
    /\ LET h == handle[c]
           ok == GcraAllowed(rlPrev[c], rlT0[c], requests_per_hour)
       IN
       IF ~ok THEN
            \* denied: check() is false; acquire() sleeps 100 ms and polls again
            /\ rlLast' = [rlLast EXCEPT ![c] =
                    IF rlPrev[c] # tat[h] \/ rlLast[c] = "raced"
                    THEN "denied_after_race" ELSE "denied"]
            /\ IF rlMode[c] = "acquire"
               THEN /\ rlPc' = [rlPc EXCEPT ![c] = "sleep"]
                    /\ rlWake' = [rlWake EXCEPT ![c] = now + PollMs]
                    /\ UNCHANGED rlMode
               ELSE /\ rlPc' = [rlPc EXCEPT ![c] = "idle"]
                    /\ rlMode' = [rlMode EXCEPT ![c] = "none"]
                    /\ UNCHANGED rlWake
            /\ rlPrev' = [rlPrev EXCEPT ![c] = 0]
            /\ rlT0' = [rlT0 EXCEPT ![c] = 0]
            /\ UNCHANGED <<tat, grants>>
       ELSE IF CasMatches(tat[h], rlPrev[c]) THEN
            /\ tat' = [tat EXCEPT ![h] =
                    GcraNext(rlPrev[c], rlT0[c], requests_per_hour)]
            /\ grants' = grants (+) SetToBag({[lim |-> h, t |-> rlT0[c]]})
            /\ rlLast' = [rlLast EXCEPT ![c] = "granted"]
            /\ rlPc' = [rlPc EXCEPT ![c] = "idle"]
            /\ rlMode' = [rlMode EXCEPT ![c] = "none"]
            /\ rlPrev' = [rlPrev EXCEPT ![c] = 0]
            /\ rlT0' = [rlT0 EXCEPT ![c] = 0]
            /\ UNCHANGED rlWake
       ELSE
            \* another caller got in between: decide again on the new state
            /\ rlPrev' = [rlPrev EXCEPT ![c] = tat[h]]
            /\ rlLast' = [rlLast EXCEPT ![c] = "raced"]
            /\ UNCHANGED <<tat, grants, rlPc, rlMode, rlT0, rlWake>>
    /\ UNCHANGED <<now, requests_per_hour, handle, cbVars, rVars, cVars, gVars, oVars>>

\* acquire(): the 100 ms sleep is over, call check() again
AcquireWake(c) ==
    /\ rlPc[c] = "sleep"
    /\ now >= rlWake[c]
    /\ rlPc' = [rlPc EXCEPT ![c] = "cas"]
    /\ rlPrev' = [rlPrev EXCEPT ![c] = tat[handle[c]]]
    /\ rlT0' = [rlT0 EXCEPT ![c] = now]
    /\ rlWake' = [rlWake EXCEPT ![c] = 0]
    /\ UNCHANGED <<now, requests_per_hour, tat, handle, rlMode, rlLast, grants,
                   cbVars, rVars, cVars, gVars, oVars>>

RlTick ==
    /\ now + RlClockStepMs <= RlMaxClockMs
    /\ now' = now + RlClockStepMs
    /\ UNCHANGED <<rlVars, cbVars, rVars, cVars, gVars, oVars>>

RlNext ==
    \/ \E c, d \in Callers : CloneLimiter(c, d)
    \/ \E c \in Callers : CheckBegin(c)
    \/ \E c \in Callers : AcquireBegin(c)
    \/ \E c \in Callers : CheckCas(c)
    \/ \E c \in Callers : AcquireWake(c)
    \/ RlTick

SpecRateLimit == RlInit /\ [][RlNext]_vars

\* one holder of the limiter that makes requests and also queries the limiter
RlStatsNext ==
    \/ \E c \in Observers : CheckBegin(c)
    \/ \E c \in Observers : AcquireBegin(c)
    \/ \E c \in Observers : TimeUntilReadyBegin(c)
    \/ \E c \in Observers : StatsBegin(c)
    \/ \E c \in Observers : RateLimiterStatsBegin(c)
    \/ \E c \in Observers : CheckCas(c)
    \/ \E c \in Observers : AcquireWake(c)
    \/ RlTick

SpecRateStats == RlInit /\ [][RlStatsNext]_vars

\* number of successful check()s of limiter l measured in [lo, hi]
GrantsIn(l, lo, hi) ==
    SumOver({g \in BagToSet(grants) : g.lim = l /\ lo <= g.t /\ g.t <= hi}, grants)

\* C1: in every rolling 3600 s window the number of successful check()s
\* (those of acquire() included) of one limiter is at most requests_per_hour.
C1_RollingWindowQuota ==
    \A g \in BagToSet(grants) :
        GrantsIn(g.lim, g.t, g.t + HourMs - 1) <= requests_per_hour

\* successful check()s measured in [lo, hi] by all callers; every caller's
\* limiter is the original or a clone of it
GrantsOfAll(lo, hi) ==
    SumOver({g \in BagToSet(grants) : lo <= g.t /\ g.t <= hi}, grants)

\* C2: token consumption is atomic across the callers sharing a limiter,
\* clones included: over any span of time the callers together are granted no
\* more than the bucket held (Burst) plus what was refilled in the span, so
\* two callers can never both take the one remaining unit.
C2_AtomicConsumption ==
    \A g1, g2 \in BagToSet(grants) :
        (g1.t <= g2.t) =>
            GrantsOfAll(g1.t, g2.t) <=
                Burst(requests_per_hour)
                    + ((g2.t - g1.t) \div ReplenishInterval(requests_per_hour))

\* two callers sharing one limiter raced: one was granted, the other's
\* compare-and-swap failed and its second decision was a denial
C2_Witness ==
    \E c, d \in Callers :
        /\ c # d
        /\ handle[c] = handle[d]
        /\ handle[c] # 0
        /\ rlLast[c] = "granted"
        /\ rlLast[d] = "denied_after_race"

----------------------------------------------------------------------------
(* 7 ErrorTaxonomy: HorizonError, by variant *)

ErrorKinds ==
    {"NetworkError", "HttpError", "Timeout", "RateLimited", "InvalidRequest",
     "InvalidResponse", "ServerError", "NotFound", "BadRequest", "Unauthorized",
     "Forbidden", "ConnectionRefused", "ConnectionReset", "DnsError", "TlsError",
     "ServiceUnavailable", "CacheError", "InvalidConfig", "JsonError",
     "UrlError", "Other"}

is_retryable(kind) ==
    kind \in {"NetworkError", "Timeout", "RateLimited", "ConnectionRefused",
              "ConnectionReset", "ServerError", "ServiceUnavailable", "DnsError"}

is_server_error(kind) == kind \in {"ServerError", "ServiceUnavailable"}

----------------------------------------------------------------------------
(* 4.2 RetryEngine: RetryPolicy, calculate_backoff, retry_with_backoff *)

Policies == {"TransientOnly", "TransientAndServerErrors", "AllRetryable", "NoRetry"}

should_retry_transient_as_any(p, kind) ==
    IF p = "NoRetry" THEN FALSE ELSE is_retryable(kind)

should_retry(p, kind) ==
    CASE p = "NoRetry" -> FALSE
      [] p = "TransientOnly" ->
            kind \in {"NetworkError", "Timeout", "ConnectionRefused",
                      "ConnectionReset", "DnsError"}
      [] p = "TransientAndServerErrors" ->
            is_retryable(kind) /\ (is_retryable(kind) \/ is_server_error(kind))
      [] p = "AllRetryable" -> is_retryable(kind)

U32IsZero(a) == a.hi = 0 /\ a.lo = 0

U32Less(a, b) == a.hi < b.hi \/ (a.hi = b.hi /\ a.lo < b.lo)

\* (attempt - 1) as i32, for attempt >= 1: the low 32 bits read as signed
AttemptExponent(a) ==
    LET hi1 == IF a.lo = 0 THEN a.hi - 1 ELSE a.hi
        lo1 == IF a.lo = 0 THEN 65535 ELSE a.lo - 1
    IN  IF hi1 >= 32768 THEN (hi1 - 65536) * 65536 + lo1 ELSE hi1 * 65536 + lo1

RECURSIVE IntPow(_, _)
IntPow(b, e) == IF e = 0 THEN 1 ELSE b * IntPow(b, e - 1)

\* exponents up to this size are computed exactly
ExactPowLimit == 6

\* f64::powi of the ratio num/den as a fraction; den = 0 stands for +infinity.
\* Past ExactPowLimit the exponents of the model are of the order 2^31, where
\* every ratio other than 1 has overflowed to infinity or underflowed to zero.
Powi(num, den, e) ==
    LET n == IF e >= 0 THEN e
             ELSE IF e < 0 - ExactPowLimit THEN ExactPowLimit + 1
             ELSE 0 - e
        up == IF e >= 0 THEN num ELSE den
        dn == IF e >= 0 THEN den ELSE num
    IN  IF num = den \/ e = 0 THEN [num |-> 1, den |-> 1]
        ELSE IF n <= ExactPowLimit THEN [num |-> IntPow(up, n), den |-> IntPow(dn, n)]
        ELSE IF up > dn THEN [num |-> 1, den |-> 0]
        ELSE [num |-> 0, den |-> 1]

\* exp_backoff.min(max_backoff) as u64: an infinite or NaN product (0 * inf)
\* yields max_backoff, since f64::min drops a NaN operand
CappedBackoffMs(a, cfg) ==
    LET pw == Powi(cfg.mult_num, cfg.mult_den, AttemptExponent(a))
    IN  IF pw.den = 0 THEN cfg.max_backoff
        ELSE Min((cfg.initial_backoff * pw.num) \div pw.den, cfg.max_backoff)

\* the jitter step: rand::random::<u64>() % (jitter_amount * 2) panics when the
\* divisor is zero
Jittered(ms, r) ==
    LET jitter_amount == ms \div 10
    IN  IF jitter_amount * 2 = 0 THEN [panic |-> TRUE, ms |-> 0]
        ELSE [panic |-> FALSE,
              ms |-> Max(ms - jitter_amount + (r % (jitter_amount * 2)), 0)]

\* calculate_backoff(attempt, config), r being the random u64 it draws
calculate_backoff(a, cfg, r) ==
    IF U32IsZero(a) THEN [panic |-> FALSE, ms |-> 0]
    ELSE IF cfg.use_jitter THEN Jittered(CappedBackoffMs(a, cfg), r)
    ELSE [panic |-> FALSE, ms |-> CappedBackoffMs(a, cfg)]

(* calculate_backoff as a function of its inputs *)

MaxBackoffAttempt == 4
MaxRandDraw == 19

BackoffAttempts ==
    {U32(n) : n \in 0..MaxBackoffAttempt}
        \cup {[hi |-> 32768, lo |-> 0], [hi |-> 32768, lo |-> 1],
              [hi |-> 65535, lo |-> 65535]}

BackoffConfigs ==
    [initial_backoff : {0, 5, 40}, max_backoff : {0, 30, 100},
     mult_num : {1, 2, 3}, mult_den : {1, 2}, use_jitter : BOOLEAN]
        \cup {DefaultBackoffConfig}

\* the state of the limiter is idle while the other components run
RlIdle ==
    /\ requests_per_hour = 1
    /\ tat = [l \in Limiters |-> 0]
    /\ handle = [c \in Callers |-> IF c = 1 THEN 1 ELSE 0]
    /\ rlPc = [c \in Callers |-> "idle"]
    /\ rlMode = [c \in Callers |-> "none"]
    /\ rlPrev = [c \in Callers |-> 0]
    /\ rlT0 = [c \in Callers |-> 0]
    /\ rlWake = [c \in Callers |-> 0]
    /\ rlLast = [c \in Callers |-> "none"]
    /\ grants = EmptyBag

CbInit ==
    /\ now = 0
    /\ RlIdle
    /\ cbCfg \in BackoffConfigs
    /\ cbAttempt = U32(0)
    /\ cbResult = NoResult
    /\ RIdle
    /\ CIdle
    /\ GIdle
    /\ HIdle
    /\ FIdle

CalculateBackoff(a, r) ==
    /\ cbAttempt' = a
    /\ cbResult' = calculate_backoff(a, cbCfg, r)
    /\ UNCHANGED <<now, rlVars, cbCfg, rVars, cVars, gVars, oVars>>

CbNext == \E a \in BackoffAttempts, r \in 0..MaxRandDraw : CalculateBackoff(a, r)

SpecBackoff == CbInit /\ [][CbNext]_vars

\* min(initial_backoff * multiplier^(attempt-1), max_backoff) in whole
\* milliseconds, attempt >= 1; past ExactPowLimit the power is its limit
FormulaBackoffMs(a, cfg) ==
    LET k == IF a.hi = 0 THEN a.lo - 1 ELSE ExactPowLimit + 1
    IN  IF k <= ExactPowLimit
        THEN Min((cfg.initial_backoff * IntPow(cfg.mult_num, k))
                    \div IntPow(cfg.mult_den, k), cfg.max_backoff)
        ELSE IF cfg.mult_num = cfg.mult_den
             THEN Min(cfg.initial_backoff, cfg.max_backoff)
        ELSE IF cfg.mult_num > cfg.mult_den /\ cfg.initial_backoff > 0
             THEN cfg.max_backoff
        ELSE 0

C5_Preconditions ==
    /\ cbCfg.max_backoff >= cbCfg.initial_backoff
    /\ cbCfg.mult_num >= cbCfg.mult_den

\* C5: without jitter calculate_backoff(0, c) is zero for every config, and for
\* max_backoff >= initial_backoff and multiplier >= 1 the result is at most
\* max_backoff, equals min(initial * multiplier^(attempt-1), max_backoff) in
\* whole milliseconds, and is non-decreasing in attempt.
C5_BackoffMonotoneCapped ==
    /\ [](  (cbResult # NoResult /\ ~cbCfg.use_jitter) =>
                /\ ~cbResult.panic
                /\ U32IsZero(cbAttempt) => cbResult.ms = 0
                /\ (C5_Preconditions /\ ~U32IsZero(cbAttempt)) =>
                        /\ cbResult.ms <= cbCfg.max_backoff
                        /\ cbResult.ms = FormulaBackoffMs(cbAttempt, cbCfg) )
    /\ [][ (/\ cbResult # NoResult
            /\ ~cbCfg.use_jitter
            /\ C5_Preconditions
            /\ ~U32Less(cbAttempt', cbAttempt))
                => cbResult.ms <= cbResult'.ms ]_vars

\* C6: with jitter, for every attempt >= 1 and every config, zero and
\* few-millisecond backoffs included, calculate_backoff returns a value d,
\* d >= 0 and 0.9*b <= d <= 1.1*b for b = min(initial * multiplier^(attempt-1),
\* max_backoff); it never fails.
C6_JitterWithinTenPercent ==
    (cbResult # NoResult /\ cbCfg.use_jitter /\ ~U32IsZero(cbAttempt)) =>
        /\ ~cbResult.panic
        /\ cbResult.ms >= 0
        /\ 9 * FormulaBackoffMs(cbAttempt, cbCfg) <= 10 * cbResult.ms
        /\ 10 * cbResult.ms <= 11 * FormulaBackoffMs(cbAttempt, cbCfg)

----------------------------------------------------------------------------
(* retry_with_backoff(config, policy, f) *)

MaxAttempts == 3

RetryBackoffConfigs ==
    {NoBackoffConfig, DefaultBackoffConfig,
     [initial_backoff |-> 5, max_backoff |-> 1000, mult_num |-> 2, mult_den |-> 1,
      use_jitter |-> TRUE]}

RInit ==
    /\ now = 0
    /\ RlIdle
    /\ cbCfg = NoBackoffConfig
    /\ cbAttempt = U32(0)
    /\ cbResult = NoResult
    /\ policy \in Policies
    /\ max_attempts \in 0..MaxAttempts
    /\ rCfg \in RetryBackoffConfigs
    /\ rPc = "call"
    /\ attempt = 1
    /\ errors = <<>>
    /\ rResult = NoOutcome
    /\ rLog = <<>>
    /\ CIdle
    /\ GIdle
    /\ HIdle
    /\ FIdle

Ok(v) == [tag |-> "ok", value |-> v, kind |-> "", call |-> 0]
Err(e) == [tag |-> "err", value |-> 0, kind |-> e.kind, call |-> e.call]
Panicked == [tag |-> "panic", value |-> 0, kind |-> "", call |-> 0]

\* number of calls of the operation so far
Calls(log) == Cardinality({i \in 1..Len(log) : log[i].ev \in {"ok", "err"}})

\* Ok(result) => return Ok(result)
AfterOkKeepLooping(a, m) == IF a >= m THEN "done" ELSE "call"

AfterOk(a, m) == "done"

\* one iteration of the loop up to its return or its sleep: f().await and the
\* handling of its outcome; the n-th call of f yields the value n or an error
\* of the given kind tagged n
RetryCall(outcome) ==
    /\ rPc = "call"
    /\ attempt <= max_attempts
    /\ LET n == Calls(rLog) + 1 IN
       IF outcome = "ok" THEN
            /\ rLog' = Append(rLog, [ev |-> "ok", arg |-> n, kind |-> ""])
            /\ rResult' = Ok(n)
            /\ rPc' = AfterOk(attempt, max_attempts)
            /\ attempt' = IF AfterOk(attempt, max_attempts) = "call"
                          THEN attempt + 1 ELSE attempt
            /\ UNCHANGED errors
       ELSE
            LET e == [kind |-> outcome, call |-> n]
                pushed == Append(errors, e)
            IN
            /\ rLog' = Append(rLog, [ev |-> "err", arg |-> n, kind |-> outcome])
            /\ errors' = pushed
            /\ IF ~should_retry(policy, outcome) \/ attempt >= max_attempts
               THEN /\ rResult' = Err(e)
                    /\ rPc' = "done"
               ELSE /\ rPc' = "backoff"
                    /\ UNCHANGED rResult
            /\ UNCHANGED attempt
    /\ UNCHANGED <<now, rlVars, cbVars, cVars, gVars, oVars, policy, max_attempts, rCfg>>

RetryBackoffNoSleep(r) ==
    /\ rPc = "backoff"
    /\ attempt' = attempt + 1
    /\ rPc' = "call"
    /\ UNCHANGED <<now, rLog, rResult>>
    /\ UNCHANGED <<rlVars, cbVars, cVars, gVars, oVars, policy, max_attempts, rCfg, errors>>

\* calculate_backoff(attempt, config), then tokio::time::sleep(backoff).await
RetryBackoff(r) ==
    /\ rPc = "backoff"
    /\ LET b == calculate_backoff(U32(attempt), rCfg, r) IN
       IF b.panic
       THEN /\ rPc' = "panicked"
            /\ rResult' = Panicked
            /\ UNCHANGED <<now, attempt, rLog>>
       ELSE /\ rLog' = Append(rLog, [ev |-> "sleep", arg |-> b.ms, kind |-> ""])
            /\ now' = now + b.ms
            /\ attempt' = attempt + 1
            /\ rPc' = "call"
            /\ UNCHANGED rResult
    /\ UNCHANGED <<rlVars, cbVars, cVars, gVars, oVars, policy, max_attempts, rCfg, errors>>

\* the range 1..=max_attempts is exhausted without a return
RetryExhausted ==
    /\ rPc = "call"
    /\ attempt > max_attempts
    /\ rResult' = IF errors = <<>>
                  THEN Err([kind |-> "Other", call |-> 0])
                  ELSE Err(errors[Len(errors)])
    /\ errors' = IF errors = <<>> THEN errors ELSE SubSeq(errors, 1, Len(errors) - 1)
    /\ rPc' = "done"
    /\ UNCHANGED <<now, rlVars, cbVars, cVars, gVars, oVars, policy, max_attempts, rCfg, attempt, rLog>>

RNext ==
    \/ \E outcome \in ErrorKinds \cup {"ok"} : RetryCall(outcome)
    \/ \E r \in {0, MaxRandDraw} : RetryBackoff(r)
    \/ RetryExhausted

SpecRetry == RInit /\ [][RNext]_vars

CallEvents(log) == {i \in 1..Len(log) : log[i].ev \in {"ok", "err"}}

\* every call of the operation so far failed with an error of kind k
AlwaysFailedWith(k) ==
    /\ CallEvents(rLog) # {}
    /\ \A i \in CallEvents(rLog) : rLog[i].ev = "err" /\ rLog[i].kind = k

\* C3: for max_attempts >= 1, an operation that always fails with an error the
\* policy does not retry is invoked exactly once and that error is returned; one
\* that always fails with a retried error is invoked exactly max_attempts times
\* and the error of the last attempt is returned.
C3_AlwaysFailingOperation ==
    \A k \in ErrorKinds :
        (max_attempts >= 1 /\ rPc \in {"done", "panicked"} /\ AlwaysFailedWith(k)) =>
            IF should_retry(policy, k)
            THEN /\ Calls(rLog) = max_attempts
                 /\ rResult = Err([kind |-> k, call |-> max_attempts])
            ELSE /\ Calls(rLog) = 1
                 /\ rResult = Err([kind |-> k, call |-> 1])

\* C4: if attempts 1..k-1 fail with retried errors and attempt k succeeds, the
\* operation was invoked exactly k times, the loop has returned the value of
\* attempt k, and neither an attempt nor a sleep follows the success.
C4_SuccessEndsLoop ==
    \A i \in 1..Len(rLog) :
        (/\ rLog[i].ev = "ok"
         /\ \A j \in 1..(i - 1) :
                rLog[j].ev = "err" => should_retry(policy, rLog[j].kind))
            => /\ i = Len(rLog)
               /\ rPc = "done"
               /\ rResult = Ok(rLog[i].arg)
               /\ Calls(rLog) = rLog[i].arg
               /\ Cardinality({j \in 1..(i - 1) : rLog[j].ev = "err"}) = rLog[i].arg - 1
               /\ rLog[i].arg <= max_attempts

\* two retried failures, two sleeps, then the third attempt succeeded
C4_Witness ==
    /\ rPc = "done"
    /\ rResult = Ok(3)
    /\ Cardinality({j \in 1..Len(rLog) : rLog[j].ev = "sleep"}) = 2

\* the table of C7
TransientKinds ==
    {"NetworkError", "Timeout", "ConnectionRefused", "ConnectionReset", "DnsError"}

ServerClassKinds == {"ServerError", "ServiceUnavailable", "RateLimited"}

NeverRetriedKinds ==
    {"NotFound", "BadRequest", "Unauthorized", "Forbidden", "InvalidRequest",
     "InvalidResponse", "InvalidConfig", "CacheError", "TlsError"}

PolicyTable(p, kind) ==
    /\ kind \notin NeverRetriedKinds
    /\ CASE p = "NoRetry" -> FALSE
         [] p = "TransientOnly" -> kind \in TransientKinds
         [] p = "TransientAndServerErrors" -> kind \in TransientKinds \cup ServerClassKinds
         [] p = "AllRetryable" -> kind \in TransientKinds \cup ServerClassKinds

\* C7: whether the loop goes on after a failed attempt that leaves budget is
\* given by the table: NoRetry never; TransientOnly for the five transient
\* variants; TransientAndServerErrors for those plus ServerError,
\* ServiceUnavailable, RateLimited; AllRetryable for the retryable variants;
\* no policy for the client, parse and configuration faults.
C7_ShouldRetryTable ==
    (/\ rLog # <<>>
     /\ rLog[Len(rLog)].ev = "err"
     /\ rLog[Len(rLog)].arg < max_attempts)
        => ((rPc \in {"backoff", "panicked"})
                <=> PolicyTable(policy, rLog[Len(rLog)].kind))

\* TransientOnly gave up on a ServerError although attempts were left
C7_Witness ==
    /\ policy = "TransientOnly"
    /\ rLog # <<>>
    /\ rLog[Len(rLog)].ev = "err"
    /\ rLog[Len(rLog)].kind = "ServerError"
    /\ rLog[Len(rLog)].arg < max_attempts
    /\ rPc = "done"

----------------------------------------------------------------------------
(* 4.3 ResponseCache over moka's time_to_live cache *)

MaxGets == 3
CacheClockStepMs == 1000
CacheMaxClockMs == 3000

CacheTtls == {0, 1000, 2000}

\* time_to_live(ttl): an entry younger than ttl is served, one older than ttl
\* is not; at the very instant age = ttl either may happen
Fresh(e, t, ttl) == e.present /\ t - e.inserted < ttl
Expired(e, t, ttl) == ~e.present \/ t - e.inserted > ttl

\* whether a lookup made at t may come out as found
MayFind(e, t, ttl, found) ==
    /\ Fresh(e, t, ttl) => found
    /\ Expired(e, t, ttl) => ~found

\* cache.insert(key, value): the entry is stamped with the time of the insert
EntryOnSetKeepsFirstStamp(old, v, t) ==
    [present |-> TRUE, value |-> v,
     inserted |-> IF old.present THEN old.inserted ELSE t]

EntryOnSet(old, v, t) == [present |-> TRUE, value |-> v, inserted |-> t]

\* self.misses.fetch_add(1)
MissesAfterMissUncounted(n) == n

MissesAfterMiss(n) == n + 1

\* the effect of ResponseCache::get(key) on the cache
CacheLookup(k, found) ==
    /\ MayFind(entries[k], now, cache_ttl, found)
    /\ IF found
       THEN /\ hits' = hits + 1
            /\ UNCHANGED misses
            /\ cOp' = [op |-> "get", key |-> k, hit |-> TRUE, value |-> entries[k].value]
       ELSE /\ misses' = MissesAfterMiss(misses)
            /\ UNCHANGED hits
            /\ cOp' = [op |-> "get", key |-> k, hit |-> FALSE, value |-> ""]
    /\ cGets' = cGets + 1
    /\ UNCHANGED <<cache_ttl, entries, lastSet>>

\* the effect of ResponseCache::set(key, value)
CacheStore(k, v) ==
    /\ entries' = [entries EXCEPT ![k] = EntryOnSet(entries[k], v, now)]
    /\ lastSet' = [lastSet EXCEPT ![k] = [valid |-> TRUE, value |-> v, at |-> now]]
    /\ cOp' = [op |-> "set", key |-> k, hit |-> FALSE, value |-> v]
    /\ UNCHANGED <<cache_ttl, hits, misses, cGets>>

\* the effect of ResponseCache::clear(): invalidate_all
CacheInvalidateAll ==
    /\ entries' = [k \in Paths |-> Absent]
    /\ lastSet' = [k \in Paths |-> NeverSet]
    /\ cOp' = [op |-> "clear", key |-> "", hit |-> FALSE, value |-> ""]
    /\ UNCHANGED <<cache_ttl, hits, misses, cGets>>

CInit ==
    /\ now = 0
    /\ RlIdle
    /\ cbCfg = NoBackoffConfig
    /\ cbAttempt = U32(0)
    /\ cbResult = NoResult
    /\ RIdle
    /\ cache_ttl \in CacheTtls
    /\ CEmpty
    /\ GIdle
    /\ HIdle
    /\ FIdle

CacheGet(k, found) ==
    /\ cGets < MaxGets
    /\ CacheLookup(k, found)
    /\ UNCHANGED <<now, rlVars, cbVars, rVars, gVars, oVars>>

CacheSet(k, v) ==
    /\ CacheStore(k, v)
    /\ UNCHANGED <<now, rlVars, cbVars, rVars, gVars, oVars>>

CacheClear ==
    /\ CacheInvalidateAll
    /\ UNCHANGED <<now, rlVars, cbVars, rVars, gVars, oVars>>

CacheResetStats ==
    /\ hits' = 0
    /\ misses' = 0
    /\ cGets' = 0
    /\ cOp' = [op |-> "reset_stats", key |-> "", hit |-> FALSE, value |-> ""]
    /\ UNCHANGED <<now, rlVars, cbVars, rVars, gVars, oVars, cache_ttl, entries, lastSet>>

CacheTick ==
    /\ now + CacheClockStepMs <= CacheMaxClockMs
    /\ now' = now + CacheClockStepMs
    /\ cOp' = [op |-> "tick", key |-> "", hit |-> FALSE, value |-> ""]
    /\ UNCHANGED <<rlVars, cbVars, rVars, gVars, oVars, cache_ttl, entries, hits, misses,
                   cGets, lastSet>>

CNext ==
    \/ \E k \in Paths, found \in BOOLEAN : CacheGet(k, found)
    \/ \E k \in Paths, v \in Values : CacheSet(k, v)
    \/ CacheClear
    \/ CacheResetStats
    \/ CacheTick

SpecCache == CInit /\ [][CNext]_vars

\* C8: after set(k, v), a get(k) made less than the TTL later (no clear in
\* between) returns v; one made more than the TTL later reports a miss and
\* increments the miss counter; the TTL runs from the entry's own insertion.
C8_TtlPerEntry ==
    [][ cOp'.op = "get" =>
            LET s == lastSet[cOp'.key] IN
            /\ (s.valid /\ now - s.at < cache_ttl) =>
                    (cOp'.hit /\ cOp'.value = s.value)
            /\ (s.valid /\ now - s.at > cache_ttl) =>
                    (~cOp'.hit /\ misses' = misses + 1) ]_vars

\* a get missed on an entry that was set and has outlived the TTL
C8_Witness ==
    /\ cOp.op = "get"
    /\ ~cOp.hit
    /\ lastSet[cOp.key].valid
    /\ now - lastSet[cOp.key].at > cache_ttl
    /\ cache_ttl > 0
    /\ misses > 0

\* C9: hits and misses never decrease except through reset_stats, which zeroes
\* both; every get adds exactly one to exactly one of them (hits for a present,
\* unexpired key, misses otherwise), so hits + misses is the number of gets
\* since the last reset_stats; set and clear leave both unchanged.
C9_CountersMonotone ==
    /\ [](hits + misses = cGets)
    /\ [][ /\ cOp'.op = "get" =>
                /\ \/ (hits' = hits + 1 /\ misses' = misses)
                   \/ (hits' = hits /\ misses' = misses + 1)
                /\ LET s == lastSet[cOp'.key] IN
                   /\ (s.valid /\ now - s.at < cache_ttl) => hits' = hits + 1
                   /\ (~s.valid \/ now - s.at > cache_ttl) => misses' = misses + 1
           /\ cOp'.op \in {"set", "clear", "tick"} =>
                (hits' = hits /\ misses' = misses)
           /\ (hits' < hits \/ misses' < misses) =>
                (cOp'.op = "reset_stats" /\ hits' = 0 /\ misses' = 0) ]_vars

\* gets of both kinds were counted
C9_Witness ==
    /\ cOp.op = "get"
    /\ hits > 0
    /\ misses > 0
    /\ hits + misses = cGets

----------------------------------------------------------------------------
(* 4.4 HorizonClient: get over the cache, the rate limiter and the retry loop *)

MaxClientGets == 2
MaxClientRate == 2
MaxClientAttempts == 2

\* a TTL that an entry outlives after two steps of the clock but not after one
ClientTtls == {RlClockStepMs + RlClockStepMs \div 2}

\* the policies of HorizonClientConfig::default() and ::test()
ClientPolicies == {"TransientAndServerErrors", "NoRetry"}

\* the retry configurations the client is built with: RetryConfig::default()
\* and one whose backoff is below ten milliseconds
ClientBackoffConfigs == RetryBackoffConfigs \ {NoBackoffConfig}

\* what the server or the transport may answer to one GET
TransportFailures == {"timeout", "connect", "other"}
Statuses == {200, 400, 404, 418, 429, 503}
Bodies == Values \cup {"not json"}

\* the retry-after header of a 429: absent (""), a number of seconds, or text
RetryAfterHeaders == {"", "1", "soon"}

Responses ==
    {[fail |-> f, status |-> 0, body |-> "", header |-> ""] : f \in TransportFailures}
        \cup {[fail |-> "none", status |-> st, body |-> "not json", header |-> ""] :
                    st \in Statuses \ {200, 429}}
        \cup {[fail |-> "none", status |-> 429, body |-> "not json", header |-> h] :
                    h \in RetryAfterHeaders}
        \cup {[fail |-> "none", status |-> 200, body |-> b, header |-> ""] : b \in Bodies}

\* the retry_after of RateLimited: the header parsed as u64 seconds, and 60 s
\* when the header is absent or does not parse; in milliseconds
retry_after(resp) == IF resp.header = "1" THEN 1000 ELSE 60000

\* HorizonError::from_reqwest for an error of send()
from_reqwest(f) ==
    CASE f = "timeout" -> "Timeout"
      [] f = "connect" -> "ConnectionRefused"
      [] f = "request" -> "NetworkError"
      [] OTHER -> "NetworkError"

\* RequestContext::new(): a fresh request id and attempt 1; the id of the
\* n-th get is n
RequestContextNew(id) == [request_id |-> id, attempt |-> 1]

\* the context the closure of get works and logs with in the k-th attempt:
\* the clone it takes of the context get created (the copy on which
\* execute_with_retry sets attempt = k is local to the loop)
ClosureContext(context, k) == context

GOk(v) == [tag |-> "ok", value |-> v, kind |-> ""]
GErr(k) == [tag |-> "err", value |-> "", kind |-> k]

\* the outcome of one attempt once the response is in
Classify(resp) ==
    IF resp.fail # "none" THEN GErr(from_reqwest(resp.fail))
    ELSE IF resp.status = 429 THEN GErr("RateLimited")
    ELSE IF resp.status < 200 \/ resp.status > 299 THEN
        CASE resp.status = 404 -> GErr("NotFound")
          [] resp.status = 400 -> GErr("BadRequest")
          [] resp.status = 401 -> GErr("Unauthorized")
          [] resp.status = 403 -> GErr("Forbidden")
          [] resp.status >= 500 /\ resp.status <= 599 -> GErr("ServerError")
          [] OTHER -> GErr("HttpError")
    ELSE IF resp.body \in Values THEN GOk(resp.body)
    ELSE GErr("InvalidResponse")

\* with_config builds the cache exactly when enable_cache is set
HasCacheNever(enabled) == FALSE

HasCache(enabled) == enabled

\* if let Ok(cached) = cache.get(path).await { return Ok(cached) }
ServedFromCacheNever(found) == FALSE

ServedFromCache(found) == found

GInit ==
    /\ now = 0
    /\ requests_per_hour \in 1..MaxClientRate
    /\ tat = [l \in Limiters |-> 0]
    /\ handle = [c \in Callers |-> IF c = 1 THEN 1 ELSE 0]
    /\ rlPc = [c \in Callers |-> "idle"]
    /\ rlMode = [c \in Callers |-> "none"]
    /\ rlPrev = [c \in Callers |-> 0]
    /\ rlT0 = [c \in Callers |-> 0]
    /\ rlWake = [c \in Callers |-> 0]
    /\ rlLast = [c \in Callers |-> "none"]
    /\ grants = EmptyBag
    /\ cbCfg = NoBackoffConfig
    /\ cbAttempt = U32(0)
    /\ cbResult = NoResult
    /\ policy \in ClientPolicies
    /\ max_attempts \in 0..MaxClientAttempts
    /\ rCfg \in ClientBackoffConfigs
    /\ rPc = "idle"
    /\ attempt = 1
    /\ errors = <<>>
    /\ rResult = NoOutcome
    /\ rLog = <<>>
    /\ enable_cache \in BOOLEAN
    /\ cache_ttl \in IF enable_cache THEN ClientTtls ELSE {0}
    /\ CEmpty
    /\ gPath = ""
    /\ gReturn = NoReturn
    /\ httpCalls = 0
    /\ gCalls = 0
    /\ gWake = 0
    /\ gOp = "none"
    /\ gCtx = <<>>
    /\ HIdle
    /\ FIdle

\* the parts of the state no step of the client changes
ClientFrame ==
    UNCHANGED <<requests_per_hour, handle, rlPc, rlMode, rlPrev, rlT0, rlWake, rlLast,
                cbVars, policy, max_attempts, rCfg, rResult, rLog, enable_cache>>

\* get(path) up to its first await on the network side: the cache check and,
\* on a hit, the return; otherwise the start of execute_with_retry
ClientGetStep(path, found) ==
    /\ rPc = "idle"
    /\ gCalls' = gCalls + 1
    /\ gPath' = path
    /\ gOp' = "get"
    /\ IF HasCache(enable_cache)
       THEN CacheLookup(path, found)
       ELSE ~found /\ UNCHANGED cVars
    /\ IF HasCache(enable_cache) /\ ServedFromCache(found)
       THEN /\ gReturn' = GOk(entries[path].value)
            /\ UNCHANGED <<rPc, attempt, errors>>
       ELSE IF max_attempts = 0
       THEN /\ gReturn' = GErr("Other")
            /\ UNCHANGED <<rPc, attempt, errors>>
       ELSE /\ gReturn' = NoReturn
            /\ rPc' = "acquire"
            /\ attempt' = 1
            /\ errors' = <<>>
    /\ gCtx' = <<>>
    /\ UNCHANGED <<now, tat, grants, httpCalls, gWake>>
    /\ ClientFrame

\* get(path) called by a user of the client
ClientGet(path, found) ==
    /\ gCalls < MaxClientGets
    /\ ClientGetStep(path, found)
    /\ UNCHANGED oVars

ClientAcquireUnlimited ==
    /\ rPc = "acquire"
    /\ gOp' = "acquire"
    /\ rPc' = "send"
    /\ UNCHANGED <<now, tat, grants, gWake, attempt, errors, cVars, gPath, gReturn, httpCalls,
                   gCalls, gCtx>>
    /\ ClientFrame
    /\ UNCHANGED oVars

\* self.rate_limiter.acquire(): one check, and the 100 ms sleep when denied
ClientAcquire ==
    /\ rPc = "acquire"
    /\ gOp' = "acquire"
    /\ IF GcraAllowed(tat[1], now, requests_per_hour)
       THEN /\ tat' = [tat EXCEPT ![1] = GcraNext(tat[1], now, requests_per_hour)]
            /\ grants' = grants (+) SetToBag({[lim |-> 1, t |-> now]})
            /\ rPc' = "send"
            /\ UNCHANGED gWake
       ELSE /\ rPc' = "poll"
            /\ gWake' = now + PollMs
            /\ UNCHANGED <<tat, grants>>
    /\ UNCHANGED <<now, attempt, errors, cVars, gPath, gReturn, httpCalls, gCalls,
                   gCtx>>
    /\ ClientFrame
    /\ UNCHANGED oVars

ClientPollWake ==
    /\ rPc = "poll"
    /\ now >= gWake
    /\ rPc' = "acquire"
    /\ gOp' = "wake"
    /\ UNCHANGED <<now, tat, grants, attempt, errors, cVars, gPath, gReturn, httpCalls,
                   gCalls, gWake, gCtx>>
    /\ ClientFrame
    /\ UNCHANGED oVars

\* the GET and the handling of its outcome by execute_with_retry, up to the
\* return of get or the backoff sleep
ClientSend(resp) ==
    /\ rPc = "send"
    /\ gOp' = "send"
    /\ httpCalls' = httpCalls + 1
    /\ LET out == Classify(resp) IN
       IF out.tag = "ok"
       THEN /\ IF HasCache(enable_cache)
               THEN CacheStore(gPath, out.value)
               ELSE UNCHANGED cVars
            /\ gReturn' = out
            /\ rPc' = "idle"
            /\ errors' = <<>>
       ELSE /\ UNCHANGED cVars
            /\ IF ~should_retry(policy, out.kind) \/ attempt >= max_attempts
               THEN /\ gReturn' = out
                    /\ rPc' = "idle"
                    /\ errors' = <<>>
               ELSE /\ rPc' = "backoff"
                    /\ errors' = Append(errors,
                            [kind |-> out.kind, call |-> attempt, at |-> now,
                             retry_after |-> IF out.kind = "RateLimited"
                                             THEN retry_after(resp) ELSE 0])
                    /\ UNCHANGED gReturn
    /\ gCtx' = Append(gCtx, ClosureContext(RequestContextNew(gCalls), attempt))
    /\ UNCHANGED <<now, tat, grants, attempt, gPath, gCalls, gWake>>
    /\ ClientFrame
    /\ UNCHANGED oVars

\* calculate_backoff(attempt, retry_config), then tokio::time::sleep(backoff)
ClientBackoff(r) ==
    /\ rPc = "backoff"
    /\ gOp' = "backoff"
    /\ LET b == calculate_backoff(U32(attempt), rCfg, r) IN
       IF b.panic
       THEN /\ rPc' = "panicked"
            /\ UNCHANGED <<now, attempt>>
       ELSE /\ now' = now + b.ms
            /\ attempt' = attempt + 1
            /\ rPc' = "acquire"
    /\ UNCHANGED <<tat, grants, errors, cVars, gPath, gReturn, httpCalls, gCalls, gWake,
                   gCtx>>
    /\ ClientFrame
    /\ UNCHANGED oVars

\* clear_cache()
ClientClearCache ==
    /\ gOp' = "clear_cache"
    /\ IF HasCache(enable_cache) THEN CacheInvalidateAll ELSE UNCHANGED cVars
    /\ UNCHANGED <<now, tat, grants, rPc, attempt, errors, gPath, gReturn, httpCalls,
                   gCalls, gWake, gCtx>>
    /\ ClientFrame
    /\ UNCHANGED oVars

ClientTick ==
    /\ now + RlClockStepMs <= RlMaxClockMs
    /\ now' = now + RlClockStepMs
    /\ gOp' = "tick"
    /\ UNCHANGED <<tat, grants, rPc, attempt, errors, cVars, gPath, gReturn, httpCalls,
                   gCalls, gWake, gCtx>>
    /\ ClientFrame
    /\ UNCHANGED oVars

GNext ==
    \/ \E path \in Paths, found \in BOOLEAN : ClientGet(path, found)
    \/ ClientAcquire
    \/ ClientPollWake
    \/ \E resp \in Responses : ClientSend(resp)
    \/ \E r \in {0, MaxRandDraw} : ClientBackoff(r)
    \/ ClientClearCache
    \/ ClientTick

SpecClient == GInit /\ [][GNext]_vars

----------------------------------------------------------------------------
(* 4.5 HorizonHealthChecker and HealthMonitor over one HorizonClient *)

MaxHealthChecks == 1
\* an interval of one step of the clock
HealthIntervalSecs == RlClockStepMs \div 1000

\* thresholds on either side of the response time of a get with one backoff
HealthThresholds == {DefaultBackoffConfig.initial_backoff}

\* a limiter of one request per second, which the monitor never exhausts
HealthRatePerHour == HourMs \div 1000

\* what the server answers while it is being monitored
HealthResponses ==
    {r \in Responses : r.fail = "none" /\ r.status \in {200, 503} /\ r.body = "v1"}
        \cup {r \in Responses : r.status = 503}

\* response_time > degraded_threshold_ms => Degraded, else Healthy
StatusOnSuccessAlwaysHealthy(response_time, threshold) == "Healthy"

StatusOnSuccess(response_time, threshold) ==
    IF response_time > threshold THEN "Degraded" ELSE "Healthy"

\* the HealthCheckResult check builds from what client.get("/") returned
HealthResultOf(outcome, response_time, t) ==
    IF outcome.tag = "ok"
    THEN [some |-> TRUE,
          status |-> StatusOnSuccess(response_time, degraded_threshold_ms),
          last_check |-> t, response_time_ms |-> response_time,
          error |-> "", details |-> outcome.value]
    ELSE [some |-> TRUE, status |-> "Unhealthy",
          last_check |-> t, response_time_ms |-> response_time,
          error |-> outcome.kind, details |-> ""]

\* while keep_monitoring.load(Relaxed)
LoopContinuesAlways(flag) == TRUE

LoopContinues(flag) == flag

HInit ==
    /\ now = 0
    /\ requests_per_hour = HealthRatePerHour
    /\ tat = [l \in Limiters |-> 0]
    /\ handle = [c \in Callers |-> IF c = 1 THEN 1 ELSE 0]
    /\ rlPc = [c \in Callers |-> "idle"]
    /\ rlMode = [c \in Callers |-> "none"]
    /\ rlPrev = [c \in Callers |-> 0]
    /\ rlT0 = [c \in Callers |-> 0]
    /\ rlWake = [c \in Callers |-> 0]
    /\ rlLast = [c \in Callers |-> "none"]
    /\ grants = EmptyBag
    /\ cbCfg = NoBackoffConfig
    /\ cbAttempt = U32(0)
    /\ cbResult = NoResult
    /\ policy = "TransientAndServerErrors"
    /\ max_attempts = 2
    /\ rCfg \in ClientBackoffConfigs
    /\ rPc = "idle"
    /\ attempt = 1
    /\ errors = <<>>
    /\ rResult = NoOutcome
    /\ rLog = <<>>
    /\ enable_cache \in BOOLEAN
    /\ cache_ttl \in IF enable_cache THEN ClientTtls ELSE {0}
    /\ CEmpty
    /\ gPath = ""
    /\ gReturn = NoReturn
    /\ httpCalls = 0
    /\ gCalls = 0
    /\ gWake = 0
    /\ gOp = "none"
    /\ gCtx = <<>>
    /\ degraded_threshold_ms \in HealthThresholds
    /\ check_interval_secs = HealthIntervalSecs
    /\ HNew
    /\ FIdle

\* the parts of the state the monitor's own steps leave alone
HealthFrame ==
    UNCHANGED <<now, rlVars, cbVars, rVars, cVars, gVars, fVars, degraded_threshold_ms,
                check_interval_secs>>

\* start(client): set the flag and spawn a loop
HealthStart(l) ==
    /\ hPc[l] = "none"
    /\ \A k \in Loops : k < l => hPc[k] # "none"
    /\ keep_monitoring' = TRUE
    /\ hPc' = [hPc EXCEPT ![l] = "top"]
    /\ hSince' = [k \in Loops |-> 0]
    /\ UNCHANGED <<last_result, hStart, hWake>>
    /\ HealthFrame

\* stop(): clear the flag
HealthStop ==
    /\ keep_monitoring
    /\ keep_monitoring' = FALSE
    /\ hSince' = [k \in Loops |-> 0]
    /\ UNCHANGED <<last_result, hPc, hStart, hWake>>
    /\ HealthFrame

\* the loop condition: one load of the flag per iteration
HealthLoad(l) ==
    /\ hPc[l] = "top"
    /\ hPc' = [hPc EXCEPT ![l] = IF LoopContinues(keep_monitoring)
                                 THEN "loaded" ELSE "exited"]
    /\ UNCHANGED <<keep_monitoring, last_result, hStart, hWake, hSince>>
    /\ HealthFrame

\* check(client) up to the await on client.get("/")
HealthCheckBegin(l, found) ==
    /\ hPc[l] = "loaded"
    /\ IF keep_monitoring
       THEN gCalls < MaxHealthChecks
       ELSE gCalls < MaxHealthChecks + Cardinality(Loops) * Cardinality(Loops)
    /\ ClientGetStep("/", found)
    /\ hStart' = [hStart EXCEPT ![l] = now]
    /\ hPc' = [hPc EXCEPT ![l] = "checking"]
    /\ hSince' = [hSince EXCEPT ![l] = IF keep_monitoring THEN @ ELSE @ + 1]
    /\ UNCHANGED <<keep_monitoring, degraded_threshold_ms, check_interval_secs,
                   last_result, hWake, fVars>>

\* the rest of check once get has returned, and the start of the loop's sleep
HealthCheckEnd(l) ==
    /\ hPc[l] = "checking"
    /\ rPc = "idle"
    /\ last_result' = HealthResultOf(gReturn, now - hStart[l], now)
    /\ hPc' = [hPc EXCEPT ![l] = "sleep"]
    /\ hWake' = [hWake EXCEPT ![l] = now + check_interval_secs * 1000]
    /\ UNCHANGED <<keep_monitoring, hStart, hSince>>
    /\ HealthFrame

\* a panic inside get unwinds the spawned task
HealthCheckPanics(l) ==
    /\ hPc[l] = "checking"
    /\ rPc = "panicked"
    /\ hPc' = [hPc EXCEPT ![l] = "exited"]
    /\ rPc' = "idle"
    /\ UNCHANGED <<keep_monitoring, last_result, hStart, hWake, hSince>>
    /\ UNCHANGED <<now, rlVars, cbVars, cVars, gVars, fVars, degraded_threshold_ms,
                   check_interval_secs, policy, max_attempts, rCfg, attempt, errors,
                   rResult, rLog>>

HealthSleepEnd(l) ==
    /\ hPc[l] = "sleep"
    /\ now >= hWake[l]
    /\ hPc' = [hPc EXCEPT ![l] = "top"]
    /\ UNCHANGED <<keep_monitoring, last_result, hStart, hWake, hSince>>
    /\ HealthFrame

\* somebody is waiting for the clock: a sleeping loop
AwaitsClock == \E l \in Loops : hPc[l] = "sleep" /\ now < hWake[l]

HealthTick ==
    /\ AwaitsClock
    /\ now' = now + RlClockStepMs
    /\ UNCHANGED <<rlVars, cbVars, rVars, cVars, gVars, fVars>>
    /\ UNCHANGED <<keep_monitoring, degraded_threshold_ms, check_interval_secs,
                   last_result, hPc, hStart, hWake, hSince>>

\* the steps of the get a check is waiting for
HealthClientStep ==
    \/ ClientAcquire
    \/ \E resp \in HealthResponses : ClientSend(resp)
    \/ \E r \in {MaxRandDraw} : ClientBackoff(r)

HealthLoopStep ==
    \/ \E l \in Loops : HealthLoad(l)
    \/ \E l \in Loops, found \in BOOLEAN : HealthCheckBegin(l, found)
    \/ \E l \in Loops : HealthCheckEnd(l)
    \/ \E l \in Loops : HealthCheckPanics(l)
    \/ \E l \in Loops : HealthSleepEnd(l)

HNext ==
    \/ \E l \in Loops : HealthStart(l)
    \/ HealthStop
    \/ HealthLoopStep
    \/ HealthClientStep
    \/ HealthTick

SpecHealth == HInit /\ [][HNext]_vars

\* the runtime keeps polling the spawned tasks, the transport answers, and
\* the clock advances
SpecHealthFair ==
    /\ SpecHealth
    /\ WF_vars(HealthLoopStep)
    /\ WF_vars(HealthClientStep)
    /\ WF_vars(HealthTick)

\* C13: check issues client.get("/"); on success the result is Healthy iff
\* the measured response time <= degraded_threshold and Degraded otherwise,
\* on error it is Unhealthy with the error message; every check overwrites the
\* last-result slot, so last_result is the result of the check that completed
\* last.
C13_HealthCheckResult ==
    [][ /\ \A l \in Loops :
            (hPc[l] = "loaded" /\ hPc'[l] = "checking") =>
                (gPath' = "/" /\ gCalls' = gCalls + 1)
        /\ \A l \in Loops :
            (hPc[l] = "checking" /\ hPc'[l] = "sleep") =>
                LET rt == now - hStart[l] IN
                /\ last_result'.some
                /\ last_result'.response_time_ms = rt
                /\ last_result'.last_check = now
                /\ gReturn.tag = "ok" =>
                      /\ last_result'.status =
                            (IF rt <= degraded_threshold_ms THEN "Healthy"
                             ELSE "Degraded")
                      /\ last_result'.details = gReturn.value
                      /\ last_result'.error = ""
                /\ gReturn.tag = "err" =>
                      /\ last_result'.status = "Unhealthy"
                      /\ last_result'.error = gReturn.kind
        /\ last_result' # last_result =>
                \E l \in Loops : hPc[l] = "checking" /\ hPc'[l] = "sleep" ]_vars

\* a slow successful check overwrote the slot with Degraded
C13_Witness ==
    /\ \E l \in Loops : hPc[l] = "sleep" /\ hWake[l] > now
    /\ last_result.some
    /\ last_result.status = "Degraded"
    /\ last_result.response_time_ms > degraded_threshold_ms
    /\ last_result.details = "v1"

AllLoopsEnded == \A l \in Loops : hPc[l] \in {"none", "exited"}

\* C14: the loop reads the flag once per iteration; once stop() has cleared
\* it and no start() follows, each loop begins at most one further check,
\* finishes the check and the sleep in flight and then ends: eventually no
\* loop is left to make a check.
C14_StopEndsLoop ==
    /\ [](~keep_monitoring => \A l \in Loops : hSince[l] <= 1)
    /\ (~keep_monitoring) ~> (keep_monitoring \/ AllLoopsEnded)

\* a loop that was stopped between its read of the flag and its check made
\* that one check and then ended
C14_Witness ==
    /\ ~keep_monitoring
    /\ \E l \in Loops : hPc[l] = "exited" /\ hSince[l] = 1
    /\ last_result.some

\* C10: a get of a path for which the enabled cache holds an unexpired entry
\* returns the cached value, and the step consumes no quota, sends no HTTP
\* request and leaves the cache contents as they were.
C10_CacheHitFrame ==
    [][ (gOp' = "get" /\ enable_cache /\ Fresh(entries[gPath'], now, cache_ttl)) =>
            /\ gReturn' = GOk(entries[gPath'].value)
            /\ rPc' = "idle"
            /\ tat' = tat
            /\ grants' = grants
            /\ httpCalls' = httpCalls
            /\ entries' = entries ]_vars

\* a get was served from the cache after an earlier get fetched the value
C10_Witness ==
    /\ gOp = "get"
    /\ enable_cache
    /\ cOp.op = "get"
    /\ cOp.hit
    /\ gReturn = GOk(entries[gPath].value)
    /\ httpCalls = 1
    /\ hits = 1

\* C11: with caching enabled, get writes the cache exactly when the retried
\* operation succeeded, storing the parsed value under the path as it returns
\* it; a later get of that path within the TTL, with no clear in between, is
\* served from the cache (hits incremented, no HTTP request); a get that
\* returns an error leaves the cache contents unchanged.
C11_CacheWriteOnSuccess ==
    [][ enable_cache =>
          /\ (gOp' = "send" /\ rPc' = "idle" /\ gReturn'.tag = "ok") =>
                entries' = [entries EXCEPT ![gPath] =
                                [present |-> TRUE, value |-> gReturn'.value,
                                 inserted |-> now]]
          /\ (gOp' = "send" /\ ~(rPc' = "idle" /\ gReturn'.tag = "ok")) =>
                entries' = entries
          /\ gOp' \in {"get", "acquire", "wake", "backoff", "tick"} =>
                entries' = entries
          /\ (gOp' = "get" /\ lastSet[gPath'].valid
                /\ now - lastSet[gPath'].at < cache_ttl) =>
                /\ gReturn' = GOk(lastSet[gPath'].value)
                /\ hits' = hits + 1
                /\ httpCalls' = httpCalls
                /\ rPc' = "idle" ]_vars

\* a get fetched a value and stored it, the clock moved on by less than the
\* TTL, and a second get of the same path was answered from the cache
C11_Witness ==
    /\ enable_cache
    /\ gOp = "get"
    /\ gCalls = 2
    /\ httpCalls = 1
    /\ lastSet[gPath].valid
    /\ now > lastSet[gPath].at
    /\ now - lastSet[gPath].at < cache_ttl
    /\ gReturn = GOk(lastSet[gPath].value)
    /\ hits = 1

\* C12: within one get, the RequestContext that the k-th attempt uses and logs
\* carries attempt number k, so the numbers run 1, 2, 3, ... across retries,
\* and the request_id is the same for all attempts of the call.
C12_ContextAttemptNumber ==
    \A i \in 1..Len(gCtx) :
        /\ gCtx[i].attempt = i
        /\ gCtx[i].request_id = gCtx[1].request_id

----------------------------------------------------------------------------
(* 4.6 FeeCache                                                              *)

FeeClockStepMs == 500
FeeMaxClockMs == 2500
MaxFeeOps == 4

\* TTLs in seconds
FeeTtls == {0, 1, 2}

\* fees handed to the cache and to the history
FeeInputs == {Fee(-1), Fee(100), Fee(101), HugeFee}

FeeOpOf(name, f) == [NoFeeOp EXCEPT !.op = name, !.arg = f]

\* Duration::num_seconds of the time since t0: whole seconds
AgeSeconds(t0, t) == (t - t0) \div 1000

CachedFeeDataNewExpired(fee, ttl, t) ==
    [ok |-> TRUE, err |-> "",
     data |-> [some |-> TRUE, base_fee_stroops |-> fee, fetched_at |-> t, ttl_seconds |-> 0]]

\* CachedFeeData::new
CachedFeeDataNew(fee, ttl, t) ==
    IF FeeNegative(fee)
    THEN [ok |-> FALSE, err |-> "InvalidFeeValue", data |-> NoFeeData]
    ELSE [ok |-> TRUE, err |-> "",
          data |-> [some |-> TRUE, base_fee_stroops |-> fee, fetched_at |-> t,
                    ttl_seconds |-> ttl]]

CachedFeeDataIsValidInclusive(d, t) == AgeSeconds(d.fetched_at, t) <= d.ttl_seconds

\* CachedFeeData::is_valid
CachedFeeDataIsValid(d, t) == AgeSeconds(d.fetched_at, t) < d.ttl_seconds

FeeOthersIdle ==
    /\ RlIdle
    /\ cbCfg = NoBackoffConfig
    /\ cbAttempt = U32(0)
    /\ cbResult = NoResult
    /\ RIdle
    /\ CIdle
    /\ GIdle
    /\ HIdle

FeeOthersFrame == UNCHANGED <<rlVars, cbVars, rVars, cVars, gVars, hVars, sVars>>

FeeCacheFrame == UNCHANGED <<fc_data, fc_ttl>>
FeeHistoryFrame == UNCHANGED <<records, max_records, accepted>>
SurgeFrame == UNCHANGED <<sp_config, fee_history>>

\* FeeCache::set
FeeCacheSet(f) ==
    /\ LET r == CachedFeeDataNew(f, fc_ttl, now) IN
         /\ r.ok => fLeft > 0
         /\ fLeft' = IF r.ok THEN fLeft - 1 ELSE fLeft
         /\ fc_data' = IF r.ok THEN r.data ELSE fc_data
         /\ fOp' = [FeeOpOf("cache.set", f) EXCEPT !.ok = r.ok, !.err = r.err]
    /\ FeeOthersFrame /\ FeeHistoryFrame /\ SurgeFrame
    /\ UNCHANGED <<now, overflow_checks, fc_ttl>>

\* FeeCache::get
FeeCacheGet ==
    /\ fOp' = IF fc_data.some /\ CachedFeeDataIsValid(fc_data, now)
              THEN [FeeOpOf("cache.get", NoFee) EXCEPT
                        !.some = TRUE, !.fee = fc_data.base_fee_stroops]
              ELSE FeeOpOf("cache.get", NoFee)
    /\ FeeOthersFrame /\ FeeCacheFrame /\ FeeHistoryFrame /\ SurgeFrame
    /\ UNCHANGED <<now, overflow_checks, fLeft>>

\* FeeCache::get_unchecked
FeeCacheGetUnchecked ==
    /\ fOp' = IF fc_data.some
              THEN [FeeOpOf("cache.get_unchecked", NoFee) EXCEPT
                        !.some = TRUE, !.fee = fc_data.base_fee_stroops]
              ELSE FeeOpOf("cache.get_unchecked", NoFee)
    /\ FeeOthersFrame /\ FeeCacheFrame /\ FeeHistoryFrame /\ SurgeFrame
    /\ UNCHANGED <<now, overflow_checks, fLeft>>

\* FeeCache::is_valid
FeeCacheIsValid ==
    /\ fOp' = [FeeOpOf("cache.is_valid", NoFee) EXCEPT
                   !.flag = fc_data.some /\ CachedFeeDataIsValid(fc_data, now)]
    /\ FeeOthersFrame /\ FeeCacheFrame /\ FeeHistoryFrame /\ SurgeFrame
    /\ UNCHANGED <<now, overflow_checks, fLeft>>

\* FeeCache::has_data
FeeCacheHasData ==
    /\ fOp' = [FeeOpOf("cache.has_data", NoFee) EXCEPT !.flag = fc_data.some]
    /\ FeeOthersFrame /\ FeeCacheFrame /\ FeeHistoryFrame /\ SurgeFrame
    /\ UNCHANGED <<now, overflow_checks, fLeft>>

\* FeeCache::clear
FeeCacheClear ==
    /\ fLeft > 0
    /\ fLeft' = fLeft - 1
    /\ fc_data' = NoFeeData
    /\ fOp' = FeeOpOf("cache.clear", NoFee)
    /\ FeeOthersFrame /\ FeeHistoryFrame /\ SurgeFrame
    /\ UNCHANGED <<now, overflow_checks, fc_ttl>>

\* FeeCache::set_ttl
FeeCacheSetTtl(t) ==
    /\ fLeft > 0
    /\ fLeft' = fLeft - 1
    /\ fc_ttl' = t
    /\ fOp' = FeeOpOf("cache.set_ttl", Fee(t))
    /\ FeeOthersFrame /\ FeeHistoryFrame /\ SurgeFrame
    /\ UNCHANGED <<now, overflow_checks, fc_data>>

\* the wall clock moves on
FeeTick ==
    /\ now + FeeClockStepMs <= FeeMaxClockMs
    /\ now' = now + FeeClockStepMs
    /\ fOp' = FeeOpOf("tick", NoFee)
    /\ FeeOthersFrame /\ FeeCacheFrame /\ FeeHistoryFrame /\ SurgeFrame
    /\ UNCHANGED <<overflow_checks, fLeft>>

\* FeeCache::new(ttl_seconds), with the other fee components unused
FeeCacheInit ==
    /\ now = 0
    /\ FeeOthersIdle
    /\ overflow_checks = FALSE
    /\ fc_ttl \in FeeTtls
    /\ max_records = 0
    /\ sp_config = DefaultSurgeConfig
    /\ fLeft = MaxFeeOps
    /\ FNew

FeeCacheNext ==
    \/ \E f \in FeeInputs : FeeCacheSet(f)
    \/ FeeCacheGet
    \/ FeeCacheGetUnchecked
    \/ FeeCacheIsValid
    \/ FeeCacheHasData
    \/ FeeCacheClear
    \/ \E t \in FeeTtls : FeeCacheSetTtl(t)
    \/ FeeTick

SpecFeeCache == FeeCacheInit /\ [][FeeCacheNext]_vars

\* C15: get returns the stored fee exactly while its age is strictly below
\* the TTL it was stored with, and none otherwise, also when nothing is stored;
\* get_unchecked returns the stored fee whenever has_data is true, whatever its
\* age; neither call modifies the cache, and a stored fee, expired or not,
\* stays stored until the next set or clear.
C15_GetVersusGetUnchecked ==
    /\ [](/\ fOp.op = "cache.get" =>
                IF fc_data.some /\ now - fc_data.fetched_at < fc_data.ttl_seconds * 1000
                THEN fOp.some /\ fOp.fee = fc_data.base_fee_stroops
                ELSE ~fOp.some
          /\ fOp.op = "cache.get_unchecked" =>
                /\ fOp.some = fc_data.some
                /\ fOp.some => fOp.fee = fc_data.base_fee_stroops
          /\ fOp.op = "cache.has_data" => fOp.flag = fc_data.some)
    /\ [][/\ fOp'.op \in {"cache.get", "cache.get_unchecked"} =>
                fc_data' = fc_data /\ fc_ttl' = fc_ttl
          /\ fc_data' # fc_data => fOp'.op \in {"cache.set", "cache.clear"}]_vars

\* an expired fee is still stored: get_unchecked returns it at an age at which
\* get would not
C15_Witness ==
    /\ fOp.op = "cache.get_unchecked"
    /\ fOp.some
    /\ fOp.fee = fc_data.base_fee_stroops
    /\ fc_data.ttl_seconds > 0
    /\ now - fc_data.fetched_at >= fc_data.ttl_seconds * 1000
    /\ ~CachedFeeDataIsValid(fc_data, now)

\* C16: set_ttl changes the TTL used by the validity checks made after the
\* call and nothing else: get and is_valid treat the stored fee as fresh
\* exactly while its age is below the cache's current TTL, and set_ttl leaves
\* the stored fee and its fetched_at as they were.
C16_SetTtlAffectsStoredFee ==
    /\ [](/\ fOp.op = "cache.get" =>
                (fOp.some <=> fc_data.some /\ now - fc_data.fetched_at < fc_ttl * 1000)
          /\ fOp.op = "cache.is_valid" =>
                (fOp.flag <=> fc_data.some /\ now - fc_data.fetched_at < fc_ttl * 1000))
    /\ [][fOp'.op = "cache.set_ttl" =>
            /\ fc_data'.some = fc_data.some
            /\ fc_data'.base_fee_stroops = fc_data.base_fee_stroops
            /\ fc_data'.fetched_at = fc_data.fetched_at]_vars

----------------------------------------------------------------------------
(* 4.7 FeeHistory                                                            *)

\* fees handed to FeeHistory.add
HistoryFees ==
    {Fee(-1), Fee(100), Fee(101), Fee(110), Fee(120), Fee(130), HugeFee}

\* values of max_records
HistoryCapacities == {0, 3}

FeeRecordNewUnchecked(fee, source, t) ==
    [ok |-> TRUE, err |-> "",
     record |-> [base_fee_stroops |-> fee, timestamp |-> t, source |-> source]]

\* FeeRecord::new
FeeRecordNew(fee, source, t) ==
    IF FeeNegative(fee)
    THEN [ok |-> FALSE, err |-> "InvalidFeeValue",
          record |-> [base_fee_stroops |-> fee, timestamp |-> t, source |-> source]]
    ELSE [ok |-> TRUE, err |-> "",
          record |-> [base_fee_stroops |-> fee, timestamp |-> t, source |-> source]]

PushBoundedDropsNewest(xs, x, max) ==
    IF Len(xs) + 1 > max THEN xs ELSE Append(xs, x)

\* push, then remove(0) when the length exceeds the bound
PushBounded(xs, x, max) ==
    IF Len(xs) + 1 > max THEN Tail(Append(xs, x)) ELSE Append(xs, x)

\* the fees of a sequence of records
FeesOf(recs) == [i \in 1..Len(recs) |-> recs[i].base_fee_stroops]

\* the last k elements of xs
LastOf(xs, k) == SubSeq(xs, Len(xs) - k + 1, Len(xs))

MinOf(a, b) == IF a <= b THEN a ELSE b

RECURSIVE FeeMin(_)
\* fees.iter().min()
FeeMin(fees) ==
    IF Len(fees) = 1 THEN fees[1]
    ELSE LET rest == FeeMin(Tail(fees)) IN
         IF FeeLeq(fees[1], rest) THEN fees[1] ELSE rest

RECURSIVE FeeMax(_)
\* fees.iter().max()
FeeMax(fees) ==
    IF Len(fees) = 1 THEN fees[1]
    ELSE LET rest == FeeMax(Tail(fees)) IN
         IF FeeLess(rest, fees[1]) THEN fees[1] ELSE rest

RECURSIVE FeeSum(_)
\* the mathematical sum of the fees
FeeSum(fees) ==
    IF fees = <<>> THEN Fee(0) ELSE FeePlus(fees[1], FeeSum(Tail(fees)))

\* fees.iter().sum::<i64>() leaves the range of i64 at some partial sum; the
\* fees summed are the non-negative ones the components accepted, so the
\* partial sums only grow
SumOverflows(fees) == FeeOverflows(FeeSum(fees))

RECURSIVE InsertSorted(_, _)
InsertSorted(x, sorted) ==
    IF sorted = <<>> THEN <<x>>
    ELSE IF FeeLeq(x, sorted[1]) THEN <<x>> \o sorted
    ELSE <<sorted[1]>> \o InsertSorted(x, Tail(sorted))

RECURSIVE SortFees(_)
\* sort_unstable on a copy of the fees
SortFees(fees) ==
    IF fees = <<>> THEN <<>> ELSE InsertSorted(fees[1], SortFees(Tail(fees)))

\* the two values the even branch of the median adds up
MiddlePair(sorted) == <<sorted[Len(sorted) \div 2], sorted[Len(sorted) \div 2 + 1]>>

\* the median as FeeStats::calculate computes it, wrapping on overflow
MedianOf(sorted) ==
    IF Len(sorted) % 2 = 0
    THEN FeeHalf(FeeWrap(FeePlus(MiddlePair(sorted)[1], MiddlePair(sorted)[2])))
    ELSE sorted[Len(sorted) \div 2 + 1]

\* FeeStats::calculate panics: an addition overflows in a build that checks
StatsPanics(fees, checks) ==
    /\ checks
    /\ fees # <<>>
    /\ \/ SumOverflows(fees)
       \/ /\ Len(fees) % 2 = 0
          /\ FeeOverflows(FeePlus(MiddlePair(SortFees(fees))[1], MiddlePair(SortFees(fees))[2]))

\* FeeStats::calculate, for a call that returns
FeeStatsCalculate(fees) ==
    IF fees = <<>> THEN NoStats
    ELSE [some |-> TRUE, min_fee |-> FeeMin(fees), max_fee |-> FeeMax(fees),
          sum |-> FeeWrap(FeeSum(fees)), median_fee |-> MedianOf(SortFees(fees)),
          total_records |-> Len(fees)]

\* FeeHistory::add
FeeHistoryAdd(f) ==
    /\ LET r == FeeRecordNew(f, "Horizon API", now) IN
         /\ r.ok => fLeft > 0
         /\ fLeft' = IF r.ok THEN fLeft - 1 ELSE fLeft
         /\ records' = IF r.ok THEN PushBounded(records, r.record, max_records)
                       ELSE records
         /\ accepted' = IF r.ok THEN Append(accepted, f) ELSE accepted
         /\ fOp' = [FeeOpOf("history.add", f) EXCEPT !.ok = r.ok, !.err = r.err]
    /\ FeeOthersFrame /\ FeeCacheFrame /\ SurgeFrame
    /\ UNCHANGED <<now, overflow_checks, max_records>>

\* FeeHistory::latest
FeeHistoryLatest ==
    /\ fOp' = IF records = <<>> THEN FeeOpOf("history.latest", NoFee)
              ELSE [FeeOpOf("history.latest", NoFee) EXCEPT
                        !.some = TRUE, !.fee = records[Len(records)].base_fee_stroops]
    /\ FeeOthersFrame /\ FeeCacheFrame /\ FeeHistoryFrame /\ SurgeFrame
    /\ UNCHANGED <<now, overflow_checks, fLeft>>

\* FeeHistory::oldest
FeeHistoryOldest ==
    /\ fOp' = IF records = <<>> THEN FeeOpOf("history.oldest", NoFee)
              ELSE [FeeOpOf("history.oldest", NoFee) EXCEPT
                        !.some = TRUE, !.fee = records[1].base_fee_stroops]
    /\ FeeOthersFrame /\ FeeCacheFrame /\ FeeHistoryFrame /\ SurgeFrame
    /\ UNCHANGED <<now, overflow_checks, fLeft>>

\* FeeHistory::len
FeeHistoryLen ==
    /\ fOp' = [FeeOpOf("history.len", NoFee) EXCEPT !.len = Len(records)]
    /\ FeeOthersFrame /\ FeeCacheFrame /\ FeeHistoryFrame /\ SurgeFrame
    /\ UNCHANGED <<now, overflow_checks, fLeft>>

\* FeeHistory::stats
FeeHistoryStats ==
    /\ fOp' = IF StatsPanics(FeesOf(records), overflow_checks)
              THEN [FeeOpOf("history.stats", NoFee) EXCEPT !.panic = TRUE]
              ELSE [FeeOpOf("history.stats", NoFee) EXCEPT
                        !.stats = FeeStatsCalculate(FeesOf(records))]
    /\ FeeOthersFrame /\ FeeCacheFrame /\ FeeHistoryFrame /\ SurgeFrame
    /\ UNCHANGED <<now, overflow_checks, fLeft>>

\* FeeHistory::clear
FeeHistoryClear ==
    /\ fLeft > 0
    /\ fLeft' = fLeft - 1
    /\ records' = <<>>
    /\ accepted' = <<>>
    /\ fOp' = FeeOpOf("history.clear", NoFee)
    /\ FeeOthersFrame /\ FeeCacheFrame /\ SurgeFrame
    /\ UNCHANGED <<now, overflow_checks, max_records>>

\* FeeHistory::new(max_records), with the other fee components unused
FeeHistoryInit ==
    /\ now = 0
    /\ FeeOthersIdle
    /\ overflow_checks \in BOOLEAN
    /\ fc_ttl = 0
    /\ max_records \in HistoryCapacities
    /\ sp_config = DefaultSurgeConfig
    /\ fLeft = MaxFeeOps
    /\ FNew

FeeHistoryNext ==
    \/ \E f \in HistoryFees : FeeHistoryAdd(f)
    \/ FeeHistoryLatest
    \/ FeeHistoryOldest
    \/ FeeHistoryLen
    \/ FeeHistoryStats
    \/ FeeHistoryClear

SpecFeeHistory == FeeHistoryInit /\ [][FeeHistoryNext]_vars

\* C18: after any sequence of add calls the history holds at most max_records
\* records, and they are exactly the most recent min(n, max_records) accepted
\* fees in insertion order; oldest() is the earliest survivor, latest() the
\* last fee added and len() their number; an add evicts at most one record,
\* always the oldest; max_records = 3 and fees 100, 110, 120, 130 leave
\* 110, 120, 130.
C18_BoundedFifo ==
    /\ [](/\ Len(records) <= max_records
          /\ FeesOf(records)
                = LastOf(accepted, MinOf(Len(accepted), max_records))
          /\ fOp.op = "history.len" => fOp.len = MinOf(Len(accepted), max_records)
          /\ fOp.op = "history.oldest" =>
                /\ fOp.some = (MinOf(Len(accepted), max_records) > 0)
                /\ fOp.some =>
                      fOp.fee = accepted[Len(accepted)
                                            - MinOf(Len(accepted), max_records) + 1]
          /\ fOp.op = "history.latest" =>
                /\ fOp.some = (MinOf(Len(accepted), max_records) > 0)
                /\ fOp.some => fOp.fee = accepted[Len(accepted)]
          /\ (max_records = 3
                /\ accepted = <<Fee(100), Fee(110), Fee(120), Fee(130)>>) =>
                FeesOf(records) = <<Fee(110), Fee(120), Fee(130)>>)
    /\ [][(fOp'.op = "history.add" /\ fOp'.ok) =>
            \/ FeesOf(records') = Append(FeesOf(records), fOp'.arg)
            \/ FeesOf(records') = Tail(Append(FeesOf(records), fOp'.arg))]_vars

\* the documented example: capacity 3, fees 100, 110, 120, 130, and oldest()
\* answers 110
C18_Witness ==
    /\ max_records = 3
    /\ accepted = <<Fee(100), Fee(110), Fee(120), Fee(130)>>
    /\ FeesOf(records) = <<Fee(110), Fee(120), Fee(130)>>
    /\ fOp.op = "history.oldest"
    /\ fOp.fee = Fee(110)

\* C19: stats() returns none exactly when there are no records; otherwise its
\* median is the middle value of the sorted fees when their number is odd and
\* the average of the two middle values when it is even (175 for 100, 150,
\* 200, 250; 150 for 100, 150, 200), and min <= median <= max.
C19_MedianRule ==
    fOp.op = "history.stats" =>
        /\ ~fOp.panic
        /\ fOp.stats.some = (records # <<>>)
        /\ fOp.stats.some =>
             LET sorted == SortFees(FeesOf(records))
                 n == Len(sorted)
             IN  /\ n % 2 = 1 => fOp.stats.median_fee = sorted[(n + 1) \div 2]
                 /\ n % 2 = 0 =>
                        FeePlus(fOp.stats.median_fee, fOp.stats.median_fee)
                            = FeePlus(sorted[n \div 2], sorted[n \div 2 + 1])
                 /\ FeeLeq(fOp.stats.min_fee, fOp.stats.median_fee)
                 /\ FeeLeq(fOp.stats.median_fee, fOp.stats.max_fee)

----------------------------------------------------------------------------
(* 4.8 SurgePricingAnalyzer                                                  *)

\* fees handed to analyze
SurgeFees ==
    {Fee(-1), Fee(0), Fee(100), Fee(120), Fee(150), Fee(250), Fee(400), Fee(500), HugeFee}

\* the thresholds are f64 in the code; the configurations use whole numbers
SurgeConfigs ==
    {DefaultSurgeConfig,
     [DefaultSurgeConfig EXCEPT !.window_size = 3],
     [DefaultSurgeConfig EXCEPT !.normal_base_fee = 0, !.window_size = 3]}

\* the mathematical product of an i64 and a small factor
FeeTimes(a, k) == [q |-> a.q * k, r |-> a.r * k]

\* surge_percent, with the f64 quotient kept as the fraction it rounds
SurgePercentOf(fee, cfg) ==
    IF cfg.normal_base_fee > 0
    THEN Percent(FeeTimes(fee, 100), cfg.normal_base_fee)
    ELSE Percent(Fee(100), 1)

\* pct >= t and pct > t for a whole number t
PercentAtLeast(pct, t) == FeeLeq(Fee(t * pct.den), pct.num)
PercentAbove(pct, t) == FeeLess(Fee(t * pct.den), pct.num)

detect_level_exclusive(pct, cfg) ==
    IF PercentAbove(pct, cfg.critical_threshold_percent) THEN "Critical"
    ELSE IF PercentAbove(pct, cfg.warn_threshold_percent) THEN "High"
    ELSE IF PercentAbove(pct, 100) THEN "Elevated"
    ELSE "Normal"

\* SurgePricingAnalyzer::detect_level
detect_level(pct, cfg) ==
    IF PercentAtLeast(pct, cfg.critical_threshold_percent) THEN "Critical"
    ELSE IF PercentAtLeast(pct, cfg.warn_threshold_percent) THEN "High"
    ELSE IF PercentAbove(pct, 100) THEN "Elevated"
    ELSE "Normal"

\* the halves of the window that calculate_trend compares
OlderHalf(hist) == SubSeq(hist, 1, Len(hist) \div 2)
RecentHalf(hist) == SubSeq(hist, Len(hist) \div 2 + 1, Len(hist))

\* calculate_trend panics: a sum overflows in a build that checks
TrendPanics(hist, checks) ==
    /\ checks
    /\ Len(hist) >= 2
    /\ SumOverflows(RecentHalf(hist)) \/ SumOverflows(OlderHalf(hist))

\* SurgePricingAnalyzer::calculate_trend for a call that returns; the f64
\* averages are compared as fractions: recent_avg = sr / nr, older_avg = so / no,
\* and a division by zero gives an infinity or a NaN, which compares false
calculate_trend(hist) ==
    IF Len(hist) < 2 THEN "Stable"
    ELSE LET sr == FeeWrap(FeeSum(RecentHalf(hist)))
             so == FeeWrap(FeeSum(OlderHalf(hist)))
             nr == Len(RecentHalf(hist))
             no == Len(OlderHalf(hist))
             r10 == FeeTimes(sr, 10 * no)
             o11 == FeeTimes(so, 11 * nr)
             o9 == FeeTimes(so, 9 * nr)
         IN  IF so = Fee(0)
             THEN IF FeeLess(Fee(0), sr) THEN "Increasing"
                  ELSE IF FeeNegative(sr) THEN "Decreasing"
                  ELSE "Stable"
             ELSE IF FeeNegative(so)
             THEN IF FeeLess(r10, o11) THEN "Increasing"
                  ELSE IF FeeLess(o9, r10) THEN "Decreasing"
                  ELSE "Stable"
             ELSE IF FeeLess(o11, r10) THEN "Increasing"
                  ELSE IF FeeLess(r10, o9) THEN "Decreasing"
                  ELSE "Stable"

\* SurgePricingAnalyzer::get_recommendation
get_recommendation(level) ==
    CASE level = "Normal" -> "Fees are normal. Safe to proceed."
      [] level = "Elevated" -> "Network is slightly congested. Fees are slightly elevated."
      [] level = "High" -> "Network is congested. Consider waiting if not urgent."
      [] level = "Critical" ->
            "Network has critical congestion. Wait for fees to decrease if possible."

\* SurgePricingAnalyzer::analyze
SurgeAnalyze(f) ==
    /\ ~FeeNegative(f) => fLeft > 0
    /\ IF FeeNegative(f)
       THEN /\ fee_history' = fee_history
            /\ fLeft' = fLeft
            /\ fOp' = [FeeOpOf("analyze", f) EXCEPT !.ok = FALSE,
                                                    !.err = "InvalidFeeValue"]
       ELSE /\ fee_history' = PushBounded(fee_history, f, sp_config.window_size)
            /\ fLeft' = fLeft - 1
            /\ fOp' = IF TrendPanics(fee_history', overflow_checks)
                      THEN [FeeOpOf("analyze", f) EXCEPT !.panic = TRUE]
                      ELSE LET pct == SurgePercentOf(f, sp_config)
                               level == detect_level(pct, sp_config)
                           IN  [FeeOpOf("analyze", f) EXCEPT
                                    !.fee = f, !.pct = pct, !.level = level,
                                    !.flag = (level # "Normal"),
                                    !.trend = calculate_trend(fee_history'),
                                    !.recommendation = get_recommendation(level)]
    /\ FeeOthersFrame /\ FeeCacheFrame /\ FeeHistoryFrame
    /\ UNCHANGED <<now, overflow_checks, sp_config>>

\* SurgePricingAnalyzer::reset_history
SurgeResetHistory ==
    /\ fLeft > 0
    /\ fLeft' = fLeft - 1
    /\ fee_history' = <<>>
    /\ fOp' = FeeOpOf("reset_history", NoFee)
    /\ FeeOthersFrame /\ FeeCacheFrame /\ FeeHistoryFrame
    /\ UNCHANGED <<now, overflow_checks, sp_config>>

\* SurgePricingAnalyzer::average_fee: the i64 sum of the window, as f64,
\* divided by its length, kept as the fraction
SurgeAverageFee ==
    /\ fOp' = IF fee_history = <<>> THEN FeeOpOf("average_fee", NoFee)
              ELSE IF overflow_checks /\ SumOverflows(fee_history)
              THEN [FeeOpOf("average_fee", NoFee) EXCEPT !.panic = TRUE]
              ELSE [FeeOpOf("average_fee", NoFee) EXCEPT
                        !.some = TRUE,
                        !.pct = Percent(FeeWrap(FeeSum(fee_history)), Len(fee_history))]
    /\ FeeOthersFrame /\ FeeCacheFrame /\ FeeHistoryFrame /\ SurgeFrame
    /\ UNCHANGED <<now, overflow_checks, fLeft>>

\* SurgePricingAnalyzer::max_fee
SurgeMaxFee ==
    /\ fOp' = IF fee_history = <<>> THEN FeeOpOf("max_fee", NoFee)
              ELSE [FeeOpOf("max_fee", NoFee) EXCEPT
                        !.some = TRUE, !.fee = FeeMax(fee_history)]
    /\ FeeOthersFrame /\ FeeCacheFrame /\ FeeHistoryFrame /\ SurgeFrame
    /\ UNCHANGED <<now, overflow_checks, fLeft>>

\* SurgePricingAnalyzer::min_fee
SurgeMinFee ==
    /\ fOp' = IF fee_history = <<>> THEN FeeOpOf("min_fee", NoFee)
              ELSE [FeeOpOf("min_fee", NoFee) EXCEPT
                        !.some = TRUE, !.fee = FeeMin(fee_history)]
    /\ FeeOthersFrame /\ FeeCacheFrame /\ FeeHistoryFrame /\ SurgeFrame
    /\ UNCHANGED <<now, overflow_checks, fLeft>>

\* SurgePricingAnalyzer::new(config), with the other fee components unused
SurgeInit ==
    /\ now = 0
    /\ FeeOthersIdle
    /\ overflow_checks \in BOOLEAN
    /\ fc_ttl = 0
    /\ max_records = 0
    /\ sp_config \in SurgeConfigs
    /\ fLeft = MaxFeeOps
    /\ FNew

SurgeNext ==
    \/ \E f \in SurgeFees : SurgeAnalyze(f)
    \/ SurgeResetHistory
    \/ SurgeAverageFee
    \/ SurgeMaxFee
    \/ SurgeMinFee

SpecSurge == SurgeInit /\ [][SurgeNext]_vars

----------------------------------------------------------------------------
(* The three fee components side by side                                     *)

\* state-changing operations in a run over all three components
FeeSuiteBudgets == {3}

FeeSuiteInit ==
    /\ now = 0
    /\ FeeOthersIdle
    /\ overflow_checks \in BOOLEAN
    /\ fc_ttl = 1
    /\ max_records = 3
    /\ sp_config = [DefaultSurgeConfig EXCEPT !.window_size = 3]
    /\ fLeft \in FeeSuiteBudgets
    /\ FNew

FeeSuiteNext ==
    \/ \E f \in FeeInputs : FeeCacheSet(f)
    \/ \E f \in HistoryFees : FeeHistoryAdd(f)
    \/ \E f \in SurgeFees : SurgeAnalyze(f)

SpecFee == FeeSuiteInit /\ [][FeeSuiteNext]_vars

\* C17: FeeCache.set, FeeHistory.add and SurgePricingAnalyzer.analyze each
\* reject a negative fee with InvalidFeeValue, and the rejected call leaves the
\* cached fee, the record sequence and the sliding window exactly as they were.
C17_NegativeFeeRejected ==
    [][(fOp'.op \in {"cache.set", "history.add", "analyze"} /\ FeeNegative(fOp'.arg)) =>
            /\ ~fOp'.ok
            /\ fOp'.err = "InvalidFeeValue"
            /\ ~fOp'.panic
            /\ UNCHANGED <<fc_data, fc_ttl, records, max_records, sp_config, fee_history>>]_vars

\* a negative fee was refused by the history while the cache, the history and
\* the window each held a fee
C17_Witness ==
    /\ fOp.op = "history.add"
    /\ FeeNegative(fOp.arg)
    /\ fOp.err = "InvalidFeeValue"
    /\ fc_data.some
    /\ records # <<>>
    /\ fee_history # <<>>

\* C21: with the default config, the analysis of a fee in the Elevated band,
\* above 100% of normal and below the 150% warn threshold (e.g. 120), has
\* is_surge = false, and for 120 surge_percent = 120.0.
C21_ElevatedIsNoSurge ==
    (fOp.op = "analyze" /\ sp_config = DefaultSurgeConfig /\ fOp.ok /\ ~fOp.panic
        /\ FeeLess(Fee(100), fOp.arg) /\ FeeLess(fOp.arg, Fee(150))) =>
        /\ ~fOp.flag
        /\ fOp.arg = Fee(120) => fOp.pct = Percent(Fee(12000), 100)

\* C22: with the default config, in the sequence analyze(100), analyze(150),
\* analyze(400) the first is not a surge, the second, a fee exactly at the
\* 150% warn threshold, has level Elevated, and the third has level Critical,
\* is_surge = true and a non-empty recommendation.
C22_WorkflowLevels ==
    (fOp.op = "analyze" /\ sp_config = DefaultSurgeConfig /\ fOp.ok /\ ~fOp.panic) =>
        /\ fee_history = <<Fee(100)>> => ~fOp.flag
        /\ fee_history = <<Fee(100), Fee(150)>> => fOp.level = "Elevated"
        /\ fee_history = <<Fee(100), Fee(150), Fee(400)>> =>
              fOp.level = "Critical" /\ fOp.flag /\ fOp.recommendation # ""

\* C23: the trend analyze returns is computed on the window after the push:
\* Stable for fewer than 2 samples; otherwise, with the window split at
\* len / 2 into an older first half and a recent second half, Increasing iff
\* the recent average exceeds the older average by more than 10%, Decreasing
\* iff it is lower by more than 10%, and Stable otherwise.
C23_TrendOfWindow ==
    (fOp.op = "analyze" /\ ~FeeNegative(fOp.arg)) =>
        LET sr == FeeSum(RecentHalf(fee_history))
            so == FeeSum(OlderHalf(fee_history))
            nr == Len(RecentHalf(fee_history))
            no == Len(OlderHalf(fee_history))
        IN  /\ ~fOp.panic
            /\ fOp.trend =
                 IF Len(fee_history) < 2 THEN "Stable"
                 ELSE IF FeeLess(FeeTimes(so, 11 * nr), FeeTimes(sr, 10 * no))
                      THEN "Increasing"
                 ELSE IF FeeLess(FeeTimes(sr, 10 * no), FeeTimes(so, 9 * nr))
                      THEN "Decreasing"
                 ELSE "Stable"

\* C30: with RetryConfig::default() (100 ms, multiplier 2, max 30 s, jitter),
\* for every jitter draw calculate_backoff(1) is at least the initial 100 ms
\* and calculate_backoff(2) is strictly greater than calculate_backoff(1).
C30_DefaultBackoffGrows ==
    /\ (cbCfg = DefaultBackoffConfig /\ cbAttempt = U32(1) /\ cbResult # NoResult) =>
            ~cbResult.panic /\ cbResult.ms >= 100
    /\ (cbCfg = DefaultBackoffConfig /\ cbAttempt = U32(2) /\ cbResult # NoResult) =>
            \A r \in 0..MaxRandDraw :
                cbResult.ms > calculate_backoff(U32(1), DefaultBackoffConfig, r).ms

\* ---------------------------------------------------------------------------
\* 4.9 FeeEstimationService (fee/service.rs, fee/calculator.rs,
\*     fee/horizon_fetcher.rs)
\* ---------------------------------------------------------------------------

MaxSvcCalls == 2

\* FeeServiceConfig.cache_ttl_secs and max_history_records of the services built
ServiceTtls == {1}
ServiceCapacities == {2}

\* operation counts handed to estimate_fee and to batch_estimate_fees
OperationCounts == {0, 1, 2}
BatchInputs == {<<>>, <<1, 2>>, <<0, 1>>}

\* what the request of fetch_base_fee can come to: the send fails, the status
\* is not a success, the body cannot be read, or a body arrives
FetchOutcomes ==
    {[send |-> s, status |-> 0, body |-> "", rate |-> NoFee] :
        s \in {"timeout", "connect", "other"}}
    \cup {[send |-> "ok", status |-> 503, body |-> "", rate |-> NoFee]}
    \cup {[send |-> "ok", status |-> 200, body |-> b, rate |-> NoFee] :
            b \in {"unreadable", "not_json", "no_records", "empty_records",
                   "no_base_fee_rate"}}
    \cup {[send |-> "ok", status |-> 200, body |-> "ledger", rate |-> f] :
            f \in {Fee(-1), Fee(0), Fee(100), HugeFee}}

FetchOk(f) == [ok |-> TRUE, err |-> "", fee |-> f]
FetchErr(e) == [ok |-> FALSE, err |-> e, fee |-> NoFee]

\* HorizonFeeFetcher::parse_base_fee
parse_base_fee(o) ==
    IF o.body = "not_json" THEN FetchErr("ParseError")
    ELSE IF o.body \in {"no_records", "empty_records"} THEN FetchErr("ParseError")
    ELSE IF o.body = "no_base_fee_rate" THEN FetchErr("ParseError")
    ELSE IF FeeNegative(o.rate) THEN FetchErr("InvalidFeeValue")
    ELSE IF o.rate = Fee(0) THEN FetchErr("InvalidFeeValue")
    ELSE FetchOk(o.rate)

fetch_base_fee_or_default(o) ==
    IF o.send = "ok" /\ o.status \in 200..299 /\ o.body = "ledger" /\ FeeLess(Fee(0), o.rate)
    THEN FetchOk(o.rate)
    ELSE FetchOk(Fee(100))

\* HorizonFeeFetcher::fetch_base_fee
fetch_base_fee(o) ==
    IF o.send = "timeout" THEN FetchErr("Timeout")
    ELSE IF o.send = "connect" THEN FetchErr("HorizonUnavailable")
    ELSE IF o.send # "ok" THEN FetchErr("NetworkError")
    ELSE IF ~(o.status \in 200..299) THEN FetchErr("HorizonUnavailable")
    ELSE IF o.body = "unreadable" THEN FetchErr("ParseError")
    ELSE parse_base_fee(o)

FeeInfoNewNoSurge(base, n, surge, pct) ==
    IF n = 0 THEN [ok |-> FALSE, err |-> "InvalidOperationCount", info |-> NoFeeInfo]
    ELSE [ok |-> TRUE, err |-> "", info |-> FeeInfoOf(base, n, FALSE, Percent(Fee(100), 1))]

\* FeeInfo::new
FeeInfoNew(base, n, surge, pct) ==
    IF n = 0 THEN [ok |-> FALSE, err |-> "InvalidOperationCount", info |-> NoFeeInfo]
    ELSE IF FeeNegative(base) THEN [ok |-> FALSE, err |-> "InvalidFeeValue", info |-> NoFeeInfo]
    ELSE IF FeeOverflows(FeeTimes(base, n))
    THEN [ok |-> FALSE, err |-> "InvalidFeeValue", info |-> NoFeeInfo]
    ELSE [ok |-> TRUE, err |-> "", info |-> FeeInfoOf(base, n, surge, pct)]

CachedFeeNever(data, t) == [some |-> FALSE, fee |-> NoFee]

\* FeeCache::get as get_cached_fee calls it
CachedFee(data, t) ==
    IF data.some /\ CachedFeeDataIsValid(data, t)
    THEN [some |-> TRUE, fee |-> data.base_fee_stroops]
    ELSE [some |-> FALSE, fee |-> NoFee]

\* the count batch_estimate_fees takes in its k-th iteration
NextCountReversed(counts, k) == counts[Len(counts) + 1 - k]

NextCount(counts, k) == counts[k]

MaxSvcClears == 1
SvcMaxClockMs == 1500

SvcFrame ==
    UNCHANGED <<now, rlVars, cbVars, rVars, cVars, gVars, hVars, overflow_checks, fc_ttl,
                max_records, sp_config, fLeft, fOp>>

\* the value estimate_fee hands back
SvcReturnOf(c, id, n, at, r, hit) ==
    [call |-> id, n |-> n, at |-> at, ok |-> r.ok, err |-> r.err, panic |-> FALSE,
     hit |-> hit, info |-> r.info, clears |-> svc_clears, resp |-> svc_pre[c].resp]

SvcError(e) == [ok |-> FALSE, err |-> e, info |-> NoFeeInfo]

\* estimate_fee returns r to caller c, or unwinds when r.panic; a running
\* batch_estimate_fees takes the value in its loop and unwinds with the panic.
\* svc_ret and svc_bret hold what the caller's last call returned, so a call
\* of one operation leaves the other's value empty
EstimateReturns(c, r) ==
    /\ svc_ret' = [svc_ret EXCEPT ![c] = r]
    /\ svc_n' = [svc_n EXCEPT ![c] = 0]
    /\ svc_fee' = [svc_fee EXCEPT ![c] = NoFee]
    /\ svc_pre' = [svc_pre EXCEPT ![c] = NoSnapshot]
    /\ IF r.panic
       THEN /\ svc_pc' = [svc_pc EXCEPT ![c] = "idle"]
            /\ svc_batch' = [svc_batch EXCEPT ![c] = NoBatch]
            /\ svc_bret' = IF svc_batch[c].active
                           THEN [svc_bret EXCEPT ![c] =
                                    [NoBatchReturn EXCEPT
                                        !.counts = svc_batch[c].counts, !.panic = TRUE,
                                        !.invoked = svc_calls' - svc_batch[c].calls0]]
                           ELSE [svc_bret EXCEPT ![c] = NoBatchReturn]
       ELSE /\ svc_pc' = [svc_pc EXCEPT ![c] = IF svc_batch[c].active THEN "loop" ELSE "idle"]
            /\ svc_bret' = [svc_bret EXCEPT ![c] = NoBatchReturn]
            /\ UNCHANGED svc_batch

\* estimate_fee up to the fetch: service.rs 85-100 with get_cached_fee
EstimateBegin(c, n) ==
    /\ cache_lock = 0
    /\ svc_calls < MaxSvcCalls
    /\ svc_calls' = svc_calls + 1
    /\ LET cached == CachedFee(fc_data, now) IN
         IF cached.some
         THEN /\ EstimateReturns(c, SvcReturnOf(c, svc_calls + 1, n, now,
                        FeeInfoNew(cached.fee, n, FALSE, Percent(Fee(100), 1)), TRUE))
              /\ UNCHANGED fetches
         ELSE /\ svc_pc' = [svc_pc EXCEPT ![c] = "fetch"]
              /\ svc_n' = [svc_n EXCEPT ![c] = n]
              /\ svc_pre' = [svc_pre EXCEPT ![c] =
                                [call |-> svc_calls + 1, at |-> now, data |-> fc_data,
                                 records |-> records, window |-> fee_history,
                                 fetches |-> fetches, resp |-> NoFetchOutcome]]
              /\ fetches' = fetches + 1
              /\ svc_bret' = [svc_bret EXCEPT ![c] = NoBatchReturn]
              /\ UNCHANGED <<svc_fee, svc_ret, svc_batch>>
    /\ UNCHANGED <<fc_data, records, accepted, fee_history, cache_lock, svc_clears>>
    /\ SvcFrame

\* FeeEstimationService::estimate_fee is called
SvcEstimate(c, n) ==
    /\ svc_pc[c] = "idle"
    /\ EstimateBegin(c, n)

\* fetch_base_fee comes back inside fetch_and_cache_fee
SvcFetchReturns(c, o) ==
    /\ svc_pc[c] = "fetch"
    /\ LET r == fetch_base_fee(o) IN
         IF r.ok
         THEN /\ svc_pc' = [svc_pc EXCEPT ![c] = "set"]
              /\ svc_fee' = [svc_fee EXCEPT ![c] = r.fee]
              /\ svc_pre' = [svc_pre EXCEPT ![c].resp = o]
              /\ UNCHANGED <<svc_n, svc_ret, svc_batch, svc_bret>>
         ELSE EstimateReturns(c, [SvcReturnOf(c, svc_pre[c].call, svc_n[c], svc_pre[c].at,
                                              SvcError(r.err), FALSE) EXCEPT !.resp = o])
    /\ UNCHANGED <<fc_data, records, accepted, fee_history, cache_lock, fetches, svc_calls,
                   svc_clears>>
    /\ SvcFrame

\* fetch_and_cache_fee takes the write lock of the cache and stores the fee
SvcCacheSet(c) ==
    /\ svc_pc[c] = "set"
    /\ cache_lock = 0
    /\ LET r == CachedFeeDataNew(svc_fee[c], fc_ttl, now) IN
         IF r.ok
         THEN /\ fc_data' = r.data
              /\ cache_lock' = c
              /\ svc_pc' = [svc_pc EXCEPT ![c] = "add"]
              /\ UNCHANGED <<svc_n, svc_fee, svc_ret, svc_batch, svc_bret, svc_pre>>
         ELSE /\ EstimateReturns(c, SvcReturnOf(c, svc_pre[c].call, svc_n[c], svc_pre[c].at,
                                                SvcError(r.err), FALSE))
              /\ UNCHANGED <<fc_data, cache_lock>>
    /\ UNCHANGED <<records, accepted, fee_history, fetches, svc_calls, svc_clears>>
    /\ SvcFrame

SvcHistoryAddKeepsGuard(c) ==
    /\ svc_pc[c] = "add"
    /\ cache_lock = c
    /\ cache_lock' = cache_lock
    /\ LET r == FeeRecordNew(svc_fee[c], "Horizon API", now) IN
         IF r.ok
         THEN /\ records' = PushBounded(records, r.record, max_records)
              /\ svc_pc' = [svc_pc EXCEPT ![c] = "analyze"]
              /\ UNCHANGED <<svc_n, svc_fee, svc_ret, svc_batch, svc_bret, svc_pre>>
         ELSE /\ EstimateReturns(c, SvcReturnOf(c, svc_pre[c].call, svc_n[c], svc_pre[c].at,
                                                SvcError(r.err), FALSE))
              /\ UNCHANGED records
    /\ UNCHANGED <<fc_data, accepted, fee_history, fetches, svc_calls, svc_clears>>
    /\ SvcFrame

\* fetch_and_cache_fee adds the fee to the history and drops both guards
SvcHistoryAdd(c) ==
    /\ svc_pc[c] = "add"
    /\ cache_lock = c
    /\ cache_lock' = 0
    /\ LET r == FeeRecordNew(svc_fee[c], "Horizon API", now) IN
         IF r.ok
         THEN /\ records' = PushBounded(records, r.record, max_records)
              /\ svc_pc' = [svc_pc EXCEPT ![c] = "analyze"]
              /\ UNCHANGED <<svc_n, svc_fee, svc_ret, svc_batch, svc_bret, svc_pre>>
         ELSE /\ EstimateReturns(c, SvcReturnOf(c, svc_pre[c].call, svc_n[c], svc_pre[c].at,
                                                SvcError(r.err), FALSE))
              /\ UNCHANGED records
    /\ UNCHANGED <<fc_data, accepted, fee_history, fetches, svc_calls, svc_clears>>
    /\ SvcFrame

\* estimate_fee analyzes the fetched fee and builds the FeeInfo: service.rs 102-115
SvcAnalyze(c) ==
    /\ svc_pc[c] = "analyze"
    /\ LET f == svc_fee[c]
           pct == SurgePercentOf(f, sp_config)
           level == detect_level(pct, sp_config)
           ret(r) == SvcReturnOf(c, svc_pre[c].call, svc_n[c], svc_pre[c].at, r, FALSE)
       IN  IF FeeNegative(f)
           THEN /\ fee_history' = fee_history
                /\ EstimateReturns(c, ret(SvcError("InvalidFeeValue")))
           ELSE /\ fee_history' = PushBounded(fee_history, f, sp_config.window_size)
                /\ IF TrendPanics(fee_history', overflow_checks)
                   THEN EstimateReturns(c, [ret(SvcError("")) EXCEPT !.panic = TRUE])
                   ELSE EstimateReturns(c, ret(FeeInfoNew(f, svc_n[c], level # "Normal", pct)))
    /\ UNCHANGED <<fc_data, records, accepted, cache_lock, fetches, svc_calls, svc_clears>>
    /\ SvcFrame

\* FeeEstimationService::batch_estimate_fees is called
SvcBatch(c, counts) ==
    /\ svc_pc[c] = "idle"
    /\ svc_calls + Len(counts) <= MaxSvcCalls
    /\ svc_ret' = [svc_ret EXCEPT ![c] = NoSvcReturn]
    /\ IF counts = <<>>
       THEN /\ svc_bret' = [svc_bret EXCEPT ![c] = [NoBatchReturn EXCEPT !.ok = TRUE]]
            /\ UNCHANGED <<svc_pc, svc_batch>>
       ELSE /\ svc_batch' = [svc_batch EXCEPT ![c] =
                                [active |-> TRUE, counts |-> counts, fees |-> <<>>,
                                 index |-> 1, calls0 |-> svc_calls]]
            /\ svc_pc' = [svc_pc EXCEPT ![c] = "call"]
            /\ svc_bret' = [svc_bret EXCEPT ![c] = NoBatchReturn]
    /\ UNCHANGED <<fc_data, records, accepted, fee_history, cache_lock, fetches, svc_calls,
                   svc_clears, svc_pre, svc_n, svc_fee>>
    /\ SvcFrame

\* the loop of batch_estimate_fees calls estimate_fee for its next count
SvcBatchCall(c) ==
    /\ svc_pc[c] = "call"
    /\ EstimateBegin(c, NextCount(svc_batch[c].counts, svc_batch[c].index))

\* the loop of batch_estimate_fees takes what estimate_fee returned
SvcBatchLoop(c) ==
    /\ svc_pc[c] = "loop"
    /\ LET b == svc_batch[c]
           r == svc_ret[c]
           done(ok, err, fees) ==
               /\ svc_bret' = [svc_bret EXCEPT ![c] =
                                  [counts |-> b.counts, ok |-> ok, err |-> err,
                                   panic |-> FALSE, fees |-> fees,
                                   invoked |-> svc_calls - b.calls0]]
               /\ svc_batch' = [svc_batch EXCEPT ![c] = NoBatch]
               /\ svc_pc' = [svc_pc EXCEPT ![c] = "idle"]
       IN  IF ~r.ok THEN done(FALSE, r.err, <<>>)
           ELSE IF b.index = Len(b.counts) THEN done(TRUE, "", Append(b.fees, r.info))
           ELSE /\ svc_batch' = [svc_batch EXCEPT ![c] =
                                    [b EXCEPT !.fees = Append(b.fees, r.info),
                                              !.index = b.index + 1]]
                /\ svc_pc' = [svc_pc EXCEPT ![c] = "call"]
                /\ UNCHANGED svc_bret
    /\ UNCHANGED <<fc_data, records, accepted, fee_history, cache_lock, fetches, svc_calls,
                   svc_clears, svc_pre, svc_n, svc_fee, svc_ret>>
    /\ SvcFrame

\* FeeEstimationService::clear_cache
SvcClearCache(c) ==
    /\ svc_pc[c] = "idle"
    /\ cache_lock = 0
    /\ svc_clears < MaxSvcClears
    /\ svc_clears' = svc_clears + 1
    /\ fc_data' = NoFeeData
    /\ UNCHANGED <<records, accepted, fee_history, cache_lock, fetches, svc_calls, svc_pre,
                   svc_pc, svc_n, svc_fee, svc_batch, svc_ret, svc_bret>>
    /\ SvcFrame

\* FeeEstimationService::clear_history
SvcClearHistory(c) ==
    /\ svc_pc[c] = "idle"
    /\ records # <<>>
    /\ records' = <<>>
    /\ UNCHANGED <<fc_data, accepted, fee_history, cache_lock, fetches, svc_calls, svc_clears,
                   svc_pre, svc_pc, svc_n, svc_fee, svc_batch, svc_ret, svc_bret>>
    /\ SvcFrame

\* the wall clock moves on while every caller is outside the service or waits
\* for Horizon; the steps between the fetch and the return take no time
SvcTick ==
    /\ \A c \in SvcCallers : svc_pc[c] \in {"idle", "fetch"}
    /\ now + FeeClockStepMs <= SvcMaxClockMs
    /\ now' = now + FeeClockStepMs
    /\ UNCHANGED <<rlVars, cbVars, rVars, cVars, gVars, hVars, fVars>>

\* FeeEstimationService::new(config)
ServiceInit ==
    /\ now = 0
    /\ FeeOthersIdle
    /\ overflow_checks \in BOOLEAN
    /\ fc_ttl \in ServiceTtls
    /\ max_records \in ServiceCapacities
    /\ sp_config = DefaultSurgeConfig
    /\ fLeft = 0
    /\ FNew

ServiceNext ==
    \/ \E c \in SvcCallers, n \in OperationCounts : SvcEstimate(c, n)
    \/ \E c \in SvcCallers, o \in FetchOutcomes : SvcFetchReturns(c, o)
    \/ \E c \in SvcCallers : SvcCacheSet(c)
    \/ \E c \in SvcCallers : SvcHistoryAdd(c)
    \/ \E c \in SvcCallers : SvcAnalyze(c)
    \/ \E c \in SvcCallers, counts \in BatchInputs : SvcBatch(c, counts)
    \/ \E c \in SvcCallers : SvcBatchCall(c)
    \/ \E c \in SvcCallers : SvcBatchLoop(c)
    \/ \E c \in SvcCallers : SvcClearCache(c)
    \/ \E c \in SvcCallers : SvcClearHistory(c)
    \/ SvcTick

SpecService == ServiceInit /\ [][ServiceNext]_vars

\* the cache holds a fee younger than the TTL
SvcFresh == fc_data.some /\ (now - fc_data.fetched_at) \div 1000 < fc_ttl

GainedNewest(xs, x, old, max) ==
    /\ xs # <<>>
    /\ xs[Len(xs)] = x
    /\ Len(xs) = Min(Len(old) + 1, max)
    /\ xs \in {Append(old, x), Tail(Append(old, x))}

C27_ZeroCountBeforeIo ==
    [][\A c \in SvcCallers :
          (/\ svc_calls' = svc_calls + 1
           /\ \/ svc_ret'[c].call = svc_calls' /\ svc_ret'[c].n = 0
              \/ svc_pre'[c].call = svc_calls' /\ svc_n'[c] = 0) =>
              /\ svc_ret'[c].call = svc_calls'
              /\ ~svc_ret'[c].ok
              /\ svc_ret'[c].err = "InvalidOperationCount"
              /\ fetches' = fetches
              /\ fc_data' = fc_data
              /\ records' = records
              /\ fee_history' = fee_history]_vars

\* C28: batch_estimate_fees(counts) calls estimate_fee for the counts one at a
\* time in input order (its k-th call is for counts[k]); when every estimate
\* succeeds it returns one FeeInfo per count in the same order; at the first
\* estimate that fails it returns that error, and estimate_fee has not been
\* and is not invoked for any later count.
C28_BatchInOrder ==
    [][\A c \in SvcCallers :
          LET b == svc_batch[c]
              out == svc_bret'[c]
              k == svc_calls' - b.calls0
          IN  /\ (b.active /\ svc_calls' = svc_calls + 1) =>
                    /\ k \in 1..Len(b.counts)
                    /\ \/ svc_ret'[c].call = svc_calls' /\ svc_ret'[c].n = b.counts[k]
                       \/ svc_pre'[c].call = svc_calls' /\ svc_n'[c] = b.counts[k]
                    /\ k > 1 => svc_ret[c].ok /\ svc_ret[c].n = b.counts[k - 1]
              /\ (b.active /\ ~svc_batch'[c].active /\ ~out.panic) =>
                    /\ out.counts = b.counts
                    /\ svc_pc'[c] = "idle"
                    /\ IF out.ok
                       THEN /\ out.invoked = Len(b.counts)
                            /\ Len(out.fees) = Len(b.counts)
                            /\ \A i \in 1..Len(b.counts) :
                                  out.fees[i].operation_count = b.counts[i]
                            /\ out.fees[Len(out.fees)] = svc_ret[c].info
                       ELSE /\ ~svc_ret[c].ok
                            /\ out.err = svc_ret[c].err
                            /\ out.invoked \in 1..Len(b.counts)
                            /\ svc_ret[c].n = b.counts[out.invoked]
                            /\ Len(b.fees) = out.invoked - 1
              /\ (~b.active /\ ~svc_batch'[c].active /\ out # svc_bret[c]
                    /\ out # NoBatchReturn) =>
                    out.ok /\ out.counts = <<>> /\ out.fees = <<>> /\ out.invoked = 0]_vars

\* batch_estimate_fees([0, 1]) on the empty cache returned the error of its
\* first estimate, and no estimate was made for the second count
C28_Witness ==
    \E c \in SvcCallers :
        /\ svc_bret[c].counts = <<0, 1>>
        /\ ~svc_bret[c].ok
        /\ svc_bret[c].err = "InvalidOperationCount"
        /\ svc_bret[c].invoked = 1
        /\ svc_calls = 1
        /\ svc_pc[c] = "idle"

\* the responses the fetch fails on: the request is not answered, the status
\* is not 2xx, the body has no records, or no positive base_fee_rate
FetchFailure(o) ==
    \/ o.send \in {"timeout", "connect", "other"}
    \/ o.send = "ok" /\ ~(o.status \in 200..299)
    \/ o.send = "ok" /\ o.body \in {"no_records", "empty_records", "no_base_fee_rate"}
    \/ o.send = "ok" /\ o.body = "ledger" /\ ~FeeLess(Fee(0), o.rate)

\* C29: a call of estimate_fee that missed the cache and whose fetch failed
\* (transport error, status not 2xx, records missing or empty, base_fee_rate
\* missing, zero or negative) returns an error and no FeeInfo, and the cache,
\* the history and the analyzer's window are what they were when it began.
C29_FetchFailureChangesNothing ==
    [][\A c \in SvcCallers :
          (svc_ret'[c].call # svc_ret[c].call /\ FetchFailure(svc_ret'[c].resp)) =>
              /\ ~svc_ret'[c].ok
              /\ ~svc_ret'[c].panic
              /\ svc_ret'[c].err \in {"Timeout", "HorizonUnavailable", "NetworkError",
                                      "ParseError", "InvalidFeeValue"}
              /\ svc_ret'[c].info = NoFeeInfo
              /\ svc_ret'[c].call = svc_pre[c].call
              /\ fc_data' = svc_pre[c].data
              /\ records' = svc_pre[c].records
              /\ fee_history' = svc_pre[c].window
              /\ fetches' = svc_pre[c].fetches + 1]_vars

\* Horizon answered a ledger with base_fee_rate 0 after the cached fee had
\* expired: the call failed, and the expired fee, the record and the sample of
\* the earlier fetch are still there
C29_Witness ==
    \E c \in SvcCallers :
        /\ svc_ret[c].resp.body = "ledger"
        /\ svc_ret[c].resp.rate = Fee(0)
        /\ svc_ret[c].err = "InvalidFeeValue"
        /\ fc_data.some
        /\ fc_data.base_fee_stroops = Fee(100)
        /\ ~CachedFeeDataIsValid(fc_data, now)
        /\ FeesOf(records) = <<Fee(100)>>
        /\ fee_history = <<Fee(100)>>
        /\ fetches = 2

\* quota the client has been granted and not yet spent on a request
GrantInHand == IF rPc = "send" THEN 1 ELSE 0

\* C31: on a cache miss every attempt of get first obtains one unit of quota
\* through acquire() and only then issues the GET: the requests issued never
\* exceed the successful checks (they are the grants minus the one in hand),
\* each request spends a grant obtained since the request before it, and
\* within one get the units consumed are the attempts made.
C31_QuotaBeforeRequest ==
    /\ [](BagCardinality(grants) = httpCalls + GrantInHand)
    /\ [][/\ httpCalls' # httpCalls =>
                /\ httpCalls' = httpCalls + 1
                /\ rPc = "send"
                /\ grants' = grants
                /\ Len(gCtx') = Len(gCtx) + 1
          /\ gCalls' = gCalls =>
                BagCardinality(grants') - Len(gCtx') - GrantInHand'
                    = BagCardinality(grants) - Len(gCtx) - GrantInHand
          /\ gCalls' # gCalls => grants' = grants /\ httpCalls' = httpCalls /\ gCtx' = <<>>]_vars

\* a get that made two attempts has returned: two requests, two units
C31_Witness ==
    /\ rPc = "idle"
    /\ gCalls = 1
    /\ Len(gCtx) = 2
    /\ httpCalls = 2
    /\ BagCardinality(grants) = 2
    /\ gReturn.tag = "err"

\* the sleeps of the retry loop so far
SleepEvents(log) == {i \in 1..Len(log) : log[i].ev = "sleep"}

\* C32: the retry loop sleeps exactly once between a failed attempt k and
\* attempt k + 1, for calculate_backoff(k, config): every sleep directly
\* follows the failure of an attempt k < max_attempts with an error the policy
\* retries and lasts calculate_backoff(k, config) for some jitter draw, and
\* every attempt after the first directly follows a sleep; so nothing is slept
\* before attempt 1, after a success, after an error that is not retried or
\* after the failure of attempt max_attempts, and a loop that has returned
\* after k attempts has slept k - 1 times.
C32_SleepsBetweenAttempts ==
    /\ \A i \in SleepEvents(rLog) :
          /\ i > 1
          /\ rLog[i - 1].ev = "err"
          /\ should_retry(policy, rLog[i - 1].kind)
          /\ rLog[i - 1].arg < max_attempts
          /\ \E r \in 0..MaxRandDraw :
                LET b == calculate_backoff(U32(rLog[i - 1].arg), rCfg, r)
                IN  ~b.panic /\ rLog[i].arg = b.ms
    /\ \A i \in CallEvents(rLog) :
          /\ rLog[i].arg = Cardinality({j \in CallEvents(rLog) : j <= i})
          /\ i > 1 => rLog[i - 1].ev = "sleep"
    /\ (rPc = "done" /\ Calls(rLog) >= 1) =>
          /\ Cardinality(SleepEvents(rLog)) = Calls(rLog) - 1
          /\ rLog[Len(rLog)].ev # "sleep"

\* three attempts failed with a retried error and the loop returned the last
\* error: two sleeps, none after the third failure
C32_Witness ==
    /\ rPc = "done"
    /\ rResult.tag = "err"
    /\ Calls(rLog) = 3
    /\ max_attempts = 3
    /\ Cardinality(SleepEvents(rLog)) = 2
    /\ rCfg = DefaultBackoffConfig
    /\ rLog[2].arg >= 90

\* C33: the analyzer's window never holds more than window_size samples; an
\* analyze of a non-negative fee appends it as the newest sample and evicts at
\* most one sample, the oldest, and only at the bound; a refused analyze and
\* the queries leave the window as it is and reset_history empties it, so the
\* window is the most recent min(n, window_size) accepted fees in order of
\* arrival; and average_fee, min_fee and max_fee return the mean, the least
\* and the greatest of exactly the samples in the window (none when empty).
C33_WindowAndAggregates ==
    /\ [](Len(fee_history) <= sp_config.window_size)
    /\ [][/\ (fOp'.op = "analyze" /\ ~FeeNegative(fOp'.arg)) =>
                \/ /\ Len(fee_history) < sp_config.window_size
                   /\ fee_history' = Append(fee_history, fOp'.arg)
                \/ /\ Len(fee_history) = sp_config.window_size
                   /\ fee_history' = Tail(Append(fee_history, fOp'.arg))
          /\ (fOp'.op = "analyze" /\ FeeNegative(fOp'.arg)) => fee_history' = fee_history
          /\ fOp'.op = "reset_history" => fee_history' = <<>>
          /\ fOp'.op \in {"average_fee", "min_fee", "max_fee"} =>
                /\ fee_history' = fee_history
                /\ ~fOp'.panic
                /\ fOp'.some = (fee_history # <<>>)
          /\ (fOp'.op = "average_fee" /\ fee_history # <<>>) =>
                fOp'.pct = Percent(FeeSum(fee_history), Len(fee_history))
          /\ (fOp'.op = "min_fee" /\ fee_history # <<>>) =>
                /\ \E i \in 1..Len(fee_history) : fee_history[i] = fOp'.fee
                /\ \A i \in 1..Len(fee_history) : FeeLeq(fOp'.fee, fee_history[i])
          /\ (fOp'.op = "max_fee" /\ fee_history # <<>>) =>
                /\ \E i \in 1..Len(fee_history) : fee_history[i] = fOp'.fee
                /\ \A i \in 1..Len(fee_history) : FeeLeq(fee_history[i], fOp'.fee)]_vars

\* the queries of the limiter: time_until_ready(), stats(), rate_limiter_stats()
ObserverModes == {"time_until_ready", "stats", "rate_limiter_stats"}

\* C34: time_until_ready(), stats() and rate_limiter_stats() only observe the
\* limiter: a step of one of them leaves the limiter's state as it was and
\* takes no unit of quota, so the checks and acquires that follow are granted
\* exactly as if the query had not been made.
C34_ObserversConsumeNothing ==
    [][\A c \in Callers :
          (rlPc[c] = "cas" /\ rlMode[c] \in ObserverModes) =>
              /\ tat' = tat
              /\ grants' = grants]_vars

\* C35: when an attempt of get failed with RateLimited { retry_after } and the
\* policy retries it, the next attempt's request is not sent before
\* retry_after has passed since that failure.
C35_RetryAfterHonoured ==
    [][(httpCalls' # httpCalls /\ errors # <<>>
            /\ errors[Len(errors)].kind = "RateLimited") =>
          now >= errors[Len(errors)].at + errors[Len(errors)].retry_after]_vars

\* C36: a health check reflects the state of the server at the time of the
\* check: a check records Healthy or Degraded only if the server answered a
\* request of that check, so while the server fails every request the check
\* records Unhealthy, also when caching is enabled and an earlier response
\* for "/" is still within its TTL.
C36_CheckReflectsServer ==
    [][\A l \in Loops :
          (hPc[l] = "checking" /\ hPc'[l] = "sleep"
                /\ last_result'.status # "Unhealthy") =>
              /\ gReturn.tag = "ok"
              /\ gCtx # <<>>]_vars

\* the spawned loops that have not ended
RunningLoops == {l \in Loops : hPc[l] \notin {"none", "exited"}}

\* C37: whatever sequence of start() and stop() is made on one HealthMonitor,
\* also start() twice and stop() followed by start() while the old loop sleeps,
\* at most one background monitoring loop is running.
C37_AtMostOneLoop == Cardinality(RunningLoops) <= 1

\* ---------------------------------------------------------------------------
\* 4.9 FeeEstimationService shared by concurrent callers
\* ---------------------------------------------------------------------------

\* the tasks that call into one service
ConcCallers == {1, 2}

\* what Horizon answers them: a failure and two ledgers with different fees
ConcFetchOutcomes ==
    {[send |-> "timeout", status |-> 0, body |-> "", rate |-> NoFee]}
    \cup {[send |-> "ok", status |-> 200, body |-> "ledger", rate |-> f] :
            f \in {Fee(100), Fee(200)}}

\* the queries each run makes of the service
ConcBudgets == {1}

\* the parts of the state a query of the service leaves alone besides the
\* fee components it reads
SvcQueryRest ==
    UNCHANGED <<now, rlVars, cbVars, rVars, cVars, gVars, hVars, overflow_checks, fc_ttl,
                max_records, sp_config, svc_n, svc_batch, svc_ret, svc_bret, svc_pre,
                cache_lock, fetches, svc_calls, svc_clears>>

\* a query is made: it is one of those the run makes
SvcQueryFrame ==
    /\ fLeft > 0
    /\ fLeft' = fLeft - 1
    /\ SvcQueryRest

\* FeeEstimationService::get_fee_stats: the read lock of the history, stats()
SvcGetFeeStats(c) ==
    /\ svc_pc[c] = "idle"
    /\ fOp' = IF StatsPanics(FeesOf(records), overflow_checks)
              THEN [FeeOpOf("get_fee_stats", NoFee) EXCEPT !.panic = TRUE]
              ELSE [FeeOpOf("get_fee_stats", NoFee) EXCEPT
                        !.stats = FeeStatsCalculate(FeesOf(records))]
    /\ UNCHANGED <<fc_data, records, accepted, fee_history, svc_pc, svc_fee>>
    /\ SvcQueryFrame

\* FeeEstimationService::get_cache_metadata: the read lock of the cache,
\* metadata()
SvcGetCacheMetadata(c) ==
    /\ svc_pc[c] = "idle"
    /\ cache_lock = 0
    /\ fOp' = IF fc_data.some
              THEN [FeeOpOf("get_cache_metadata", NoFee) EXCEPT
                        !.some = TRUE, !.fee = fc_data.base_fee_stroops,
                        !.flag = CachedFeeDataIsValid(fc_data, now),
                        !.len = AgeSeconds(fc_data.fetched_at, now)]
              ELSE FeeOpOf("get_cache_metadata", NoFee)
    /\ UNCHANGED <<fc_data, records, accepted, fee_history, svc_pc, svc_fee>>
    /\ SvcQueryFrame

\* FeeEstimationService::set_exchange_rate: the write lock of the converter,
\* set_rate(); the converter's table is read by no operation modelled here
SvcSetExchangeRate(c, rate) ==
    /\ svc_pc[c] = "idle"
    /\ fOp' = [FeeOpOf("set_exchange_rate", NoFee) EXCEPT
                    !.ok = (rate > 0),
                    !.err = IF rate > 0 THEN "" ELSE "CurrencyConversionFailed",
                    !.len = rate]
    /\ UNCHANGED <<fc_data, records, accepted, fee_history, svc_pc, svc_fee>>
    /\ SvcQueryFrame

\* FeeEstimationService::get_surge_info up to the analyzer's lock:
\* get_cached_fee()? under the read lock of the cache
SvcGetSurgeInfo(c) ==
    /\ svc_pc[c] = "idle"
    /\ cache_lock = 0
    /\ LET cached == CachedFee(fc_data, now) IN
         IF cached.some
         THEN /\ svc_pc' = [svc_pc EXCEPT ![c] = "surge"]
              /\ svc_fee' = [svc_fee EXCEPT ![c] = cached.fee]
              /\ UNCHANGED fOp
         ELSE /\ fOp' = FeeOpOf("get_surge_info", NoFee)
              /\ UNCHANGED <<svc_pc, svc_fee>>
    /\ UNCHANGED <<fc_data, records, accepted, fee_history>>
    /\ SvcQueryFrame

\* the rest of get_surge_info: analyzer.analyze(base_fee).ok()? under the
\* analyzer's lock, and the formatted description
SvcSurgeAnalyze(c) ==
    /\ svc_pc[c] = "surge"
    /\ LET f == svc_fee[c]
           pct == SurgePercentOf(f, sp_config)
           level == detect_level(pct, sp_config)
       IN  IF FeeNegative(f)
           THEN /\ fee_history' = fee_history
                /\ fOp' = FeeOpOf("get_surge_info", f)
           ELSE /\ fee_history' = PushBounded(fee_history, f, sp_config.window_size)
                /\ fOp' = IF TrendPanics(fee_history', overflow_checks)
                          THEN [FeeOpOf("get_surge_info", f) EXCEPT !.panic = TRUE]
                          ELSE [FeeOpOf("get_surge_info", f) EXCEPT
                                    !.some = TRUE, !.level = level, !.pct = pct,
                                    !.recommendation = get_recommendation(level)]
    /\ svc_pc' = [svc_pc EXCEPT ![c] = "idle"]
    /\ svc_fee' = [svc_fee EXCEPT ![c] = NoFee]
    /\ UNCHANGED <<fc_data, records, accepted, fLeft>>
    /\ SvcQueryRest

\* FeeEstimationService::new(config), handed to the callers; their calls fall
\* within one reading of the clock
ServiceConcInit ==
    /\ now = 0
    /\ FeeOthersIdle
    /\ overflow_checks = FALSE
    /\ fc_ttl \in ServiceTtls
    /\ max_records \in ServiceCapacities
    /\ sp_config = DefaultSurgeConfig
    /\ fLeft \in ConcBudgets
    /\ fc_data = NoFeeData
    /\ records = <<>>
    /\ accepted = <<>>
    /\ fee_history = <<>>
    /\ fOp = NoFeeOp
    /\ svc_pc = [c \in ConcCallers |-> "idle"]
    /\ svc_n = [c \in ConcCallers |-> 0]
    /\ svc_fee = [c \in ConcCallers |-> NoFee]
    /\ svc_batch = [c \in ConcCallers |-> NoBatch]
    /\ svc_ret = [c \in ConcCallers |-> NoSvcReturn]
    /\ svc_bret = [c \in ConcCallers |-> NoBatchReturn]
    /\ svc_pre = [c \in ConcCallers |-> NoSnapshot]
    /\ cache_lock = 0
    /\ fetches = 0
    /\ svc_calls = 0
    /\ svc_clears = 0

\* the steps by which a call that has begun goes on to its return
ServiceConcProgress(c) ==
    \/ \E o \in ConcFetchOutcomes : SvcFetchReturns(c, o)
    \/ SvcCacheSet(c)
    \/ SvcHistoryAdd(c)
    \/ SvcAnalyze(c)
    \/ SvcSurgeAnalyze(c)

\* the estimates of a run: one for each caller
ConcEstimates == Cardinality(ConcCallers)

\* estimate_fee(1) called by one of the concurrent callers
SvcConcEstimate(c) ==
    /\ svc_calls < ConcEstimates
    /\ SvcEstimate(c, 1)

ServiceConcNext ==
    \/ \E c \in ConcCallers : SvcConcEstimate(c)
    \/ \E c \in ConcCallers : ServiceConcProgress(c)
    \/ \E c \in ConcCallers : SvcClearCache(c)
    \/ \E c \in ConcCallers : SvcClearHistory(c)
    \/ \E c \in ConcCallers : SvcGetFeeStats(c)
    \/ \E c \in ConcCallers : SvcGetCacheMetadata(c)
    \/ \E c \in ConcCallers : SvcSetExchangeRate(c, 2)
    \/ \E c \in ConcCallers : SvcGetSurgeInfo(c)

SpecServiceConc == ServiceConcInit /\ [][ServiceConcNext]_vars

\* the runtime keeps polling the callers' tasks, and Horizon's answer or the
\* request's timeout arrives: a call that can go on does
SpecServiceConcFair ==
    /\ SpecServiceConc
    /\ \A c \in ConcCallers : WF_vars(ServiceConcProgress(c))

\* C38: under any interleaving of concurrent estimate_fee, clear_cache,
\* clear_history, get_fee_stats, get_cache_metadata, set_exchange_rate and
\* get_surge_info calls no call waits forever for a lock: every call that has
\* begun returns and the guard of the cache is always given back. The locks
\* are taken in one order, the cache before the history: the guard of the
\* cache is held only by a call that goes on to the history, and no guard is
\* held while the fee is fetched from Horizon.
C38_NoCallWaitsForever ==
    /\ [](\A c \in ConcCallers : svc_pc[c] = "fetch" => cache_lock # c)
    /\ [](\A c \in ConcCallers : cache_lock = c => svc_pc[c] = "add")
    /\ \A c \in ConcCallers : (svc_pc[c] # "idle") ~> (svc_pc[c] = "idle")
    /\ (cache_lock # 0) ~> (cache_lock = 0)

\* one caller's fetch_and_cache_fee waits for the cache while the other holds
\* its guard and is about to take the history
C38_Witness ==
    \E c, d \in ConcCallers :
        /\ c # d
        /\ svc_pc[c] = "set"
        /\ cache_lock = d
        /\ svc_pc[d] = "add"

\* every caller's estimate_fee missed, fetched a fee and returned, and nothing
\* else was done to the service
AllMissedAndReturned ==
    /\ \A c \in ConcCallers : svc_pc[c] = "idle" /\ svc_ret[c].ok /\ ~svc_ret[c].hit
    /\ svc_clears = 0
    /\ fOp = NoFeeOp
    /\ Len(records) = Cardinality(ConcCallers)

\* C39: when several estimate_fee calls miss concurrently and each fetches a
\* fee, the fees enter the analyzer's window in the order in which they are
\* appended to the history, and once all the calls have returned the cached
\* fee, the latest record of the history and the newest sample of the window
\* are the same fee.
C39_SameOrderEverywhere ==
    AllMissedAndReturned =>
        /\ fee_history = FeesOf(records)
        /\ fc_data.base_fee_stroops = records[Len(records)].base_fee_stroops
        /\ fee_history[Len(fee_history)] = fc_data.base_fee_stroops

\* C40: get_surge_info() is read-only: it returns none when the cache holds
\* no fresh fee and otherwise the description of the surge level of the cached
\* fee, and it leaves the analyzer's window, the FeeCache and the FeeHistory
\* as they were.
C40_SurgeInfoReadOnly ==
    [][/\ (fLeft' # fLeft /\ fOp'.op = "get_surge_info" /\ fOp' # fOp) =>
             /\ ~CachedFee(fc_data, now).some
             /\ ~fOp'.some
             /\ fee_history' = fee_history
             /\ fc_data' = fc_data
             /\ records' = records
       /\ \A c \in ConcCallers :
             (svc_pc[c] = "surge" /\ svc_pc'[c] = "idle") =>
                 /\ fOp'.some
                 /\ fOp'.level = detect_level(SurgePercentOf(svc_fee[c], sp_config), sp_config)
                 /\ fee_history' = fee_history
                 /\ fc_data' = fc_data
                 /\ records' = records]_vars

====
